---- MODULE Spec2Model ----
(***************************************************************************)
(* ChessBench: the response-parsing and legality-validation pipeline of    *)
(* bench/run.ts (evalOne and its helpers) and the batch runner around it    *)
(* (main, asyncPool).                                                       *)
(*                                                                          *)
(* Text is a sequence of one-character strings, so that the two regular     *)
(* expressions, normalizeUciLine and scoreMove work on characters as the    *)
(* code does.  The chess rules engine (chess.js) is the table ChessMove /   *)
(* ChessMoveSan over the positions reachable from the puzzle FEN by the     *)
(* moves of the model's alphabet.                                           *)
(***************************************************************************)
EXTENDS Naturals, Sequences, FiniteSets, TLC

(***************************************************************************)
(* Characters                                                              *)
(***************************************************************************)
LowerLetters == <<"a","b","c","d","e","f","g","h","i","j","k","l","m",
                  "n","o","p","q","r","s","t","u","v","w","x","y","z">>

UpperLetters == <<"A","B","C","D","E","F","G","H","I","J","K","L","M",
                  "N","O","P","Q","R","S","T","U","V","W","X","Y","Z">>

Digits == {"0","1","2","3","4","5","6","7","8","9"}

Range(f) == {f[i] : i \in DOMAIN f}

\* \s of the regular expressions, and what String.prototype.trim removes:
\* the white space and the line terminators of ECMAScript.  A character
\* outside ASCII, and the vertical tab, is written as its code point.
WhiteSpace ==
  { " ", "\t", "\n", "\r", "\f", "U+000B", "U+00A0", "U+1680",
    "U+2000", "U+2001", "U+2002", "U+2003", "U+2004", "U+2005", "U+2006",
    "U+2007", "U+2008", "U+2009", "U+200A", "U+2028", "U+2029", "U+202F",
    "U+205F", "U+3000", "U+FEFF" }

\* \w of the regular expressions
WordChars == Range(LowerLetters) \cup Range(UpperLetters) \cup Digits \cup {"_"}

\* The characters outside ASCII that the texts of the model hold besides
\* white space, written as code points: the letters E acute, A ring, sharp
\* s, dotless i and sigma with their other case, the capital I with a dot,
\* the Kelvin and the Angstrom sign, and the combining dot above.
OtherChars ==
  { "U+00C9", "U+00E9", "U+00C5", "U+00E5", "U+00DF", "U+0130", "U+0131",
    "U+0307", "U+03A3", "U+03C3", "U+03C2", "U+212A", "U+212B" }

\* the lower case of the letters of OtherChars that have one whatever their
\* neighbours are (the case mappings of Unicode, which
\* String.prototype.toLowerCase applies): the capital I with a dot becomes
\* two characters, the Kelvin sign the letter k
LowerOutsideAscii(c) ==
  CASE c = "U+00C9" -> <<"U+00E9">>
    [] c = "U+00C5" -> <<"U+00E5">>
    [] c = "U+212B" -> <<"U+00E5">>
    [] c = "U+212A" -> <<"k">>
    [] c = "U+0130" -> <<"i", "U+0307">>
    [] OTHER -> <<c>>

\* the cased letters among the characters of the model, and the characters
\* a case mapping looks through (Cased and Case_Ignorable of Unicode)
Cased ==
  Range(LowerLetters) \cup Range(UpperLetters)
    \cup (OtherChars \ {"U+0307"})

\* (the grave accent is written as its code point)
CaseIgnorable == {"'", ".", ":", "^", "U+0060", "U+0307", "U+FEFF"}

\* is there a cased letter at the positions js of s, with nothing but
\* characters looked through between it and position i
CasedNextTo(s, i, js) ==
  \E j \in js :
    /\ s[j] \in Cased
    /\ \A k \in js : (IF j < i THEN k > j ELSE k < j) => s[k] \in CaseIgnorable

\* the capital sigma at position i ends a word (Final_Sigma of Unicode): a
\* cased letter before it and none after it
FinalSigma(s, i) ==
  /\ CasedNextTo(s, i, 1..(i - 1))
  /\ ~CasedNextTo(s, i, (i + 1)..Len(s))

\* the lower case of the character at position i of s
LowerAt(s, i) ==
  IF s[i] \in Range(UpperLetters)
    THEN <<LowerLetters[CHOOSE k \in DOMAIN UpperLetters : UpperLetters[k] = s[i]]>>
  ELSE IF s[i] = "U+03A3"
    THEN IF FinalSigma(s, i) THEN <<"U+03C2">> ELSE <<"U+03C3">>
  ELSE LowerOutsideAscii(s[i])

RECURSIVE LowerFrom(_, _)
LowerFrom(s, i) ==
  IF i > Len(s) THEN <<>> ELSE LowerAt(s, i) \o LowerFrom(s, i + 1)

\* String.prototype.toLowerCase
toLowerCase(s) == LowerFrom(s, 1)

\* String.prototype.toLowerCase of a string of one character
LowerChar(c) == LowerAt(<<c>>, 1)

\* both cases of a set of lower-case letters (the i flag of a regular expression)
AnyCase(S) == S \cup {UpperLetters[i] : i \in {j \in DOMAIN LowerLetters : LowerLetters[j] \in S}}

Files == {"a","b","c","d","e","f","g","h"}
Ranks == {"1","2","3","4","5","6","7","8"}
PromoLower == {"q","r","b","n"}
PromoUpper == {"Q","R","B","N"}

(***************************************************************************)
(* A backtracking matcher for the regular expressions of run.ts.  A        *)
(* pattern is a sequence of items: "one" (a character of cls), "opt" (cls?, *)
(* greedy), "star" (cls*, greedy), "grp" ((?: the next len items )?,        *)
(* greedy), "wb" (\b) and "eos" ($).  ReMatch gives the index after the     *)
(* match that JavaScript's backtracking finds first, or 0 when there is     *)
(* none.                                                                    *)
(***************************************************************************)
One(cls)  == [k |-> "one",  cls |-> cls, len |-> 0]
Opt(cls)  == [k |-> "opt",  cls |-> cls, len |-> 0]
Star(cls) == [k |-> "star", cls |-> cls, len |-> 0]
Grp(n)    == [k |-> "grp",  cls |-> {},  len |-> n]
WB        == [k |-> "wb",   cls |-> {},  len |-> 0]
EOS       == [k |-> "eos",  cls |-> {},  len |-> 0]

IsWordAt(s, i) == i >= 1 /\ i <= Len(s) /\ s[i] \in WordChars

RECURSIVE ReMatch(_, _, _, _)
ReMatch(re, n, s, pos) ==
  IF n > Len(re) THEN pos
  ELSE LET it == re[n]
           here == pos <= Len(s) /\ s[pos] \in it.cls
       IN CASE it.k = "wb" ->
                 IF IsWordAt(s, pos - 1) # IsWordAt(s, pos)
                   THEN ReMatch(re, n + 1, s, pos) ELSE 0
            [] it.k = "eos" ->
                 IF pos = Len(s) + 1 THEN ReMatch(re, n + 1, s, pos) ELSE 0
            [] it.k = "one" ->
                 IF here THEN ReMatch(re, n + 1, s, pos + 1) ELSE 0
            [] it.k = "opt" ->
                 LET r == IF here THEN ReMatch(re, n + 1, s, pos + 1) ELSE 0
                 IN IF r # 0 THEN r ELSE ReMatch(re, n + 1, s, pos)
            [] it.k = "star" ->
                 LET r == IF here THEN ReMatch(re, n, s, pos + 1) ELSE 0
                 IN IF r # 0 THEN r ELSE ReMatch(re, n + 1, s, pos)
            [] it.k = "grp" ->
                 LET r == ReMatch(re, n + 1, s, pos)
                 IN IF r # 0 THEN r ELSE ReMatch(re, n + 1 + it.len, s, pos)

\* the smallest index of ends with a match (a non-zero end) and that end,
\* as <<index, end>>, or <<0, 0>>
FirstMatch(ends) ==
  LET hits == {i \in DOMAIN ends : ends[i] # 0}
  IN IF hits = {} THEN <<0, 0>>
     ELSE LET least == CHOOSE i \in hits : \A j \in hits : i <= j
          IN <<least, ends[least]>>

\* the first alternative of alts (in order) that matches at pos, else 0
MatchAlts(alts, s, pos) ==
  FirstMatch([a \in DOMAIN alts |-> ReMatch(alts[a], 1, s, pos)])[2]

\* RegExp.prototype.exec with the g flag: the first match at or after from,
\* as <<start, end>> (end is the new lastIndex), or <<0, 0>>
ReExec(alts, s, from) ==
  FirstMatch([i \in from..Len(s) |-> MatchAlts(alts, s, i)])

SelectChars(s, S) == SelectSeq(s, LAMBDA c : c \in S)

(***************************************************************************)
(* run.ts: requiredPlies, normalizeUciLine, the two extractors              *)
(***************************************************************************)
Levels == {"mate1", "mate2", "mate3"}

\* the number of moves of the mating side
requiredOwnMoves(level) ==
  IF level = "mate1" THEN 1
  ELSE IF level = "mate2" THEN 2
  ELSE 3

requiredPlies(level) ==
  IF level = "mate1" THEN 1
  ELSE IF level = "mate2" THEN 3
  ELSE 5

\* String.prototype.trim
RECURSIVE TrimLeft(_)
TrimLeft(s) ==
  IF s # <<>> /\ Head(s) \in WhiteSpace THEN TrimLeft(Tail(s)) ELSE s

RECURSIVE TrimRight(_)
TrimRight(s) ==
  IF s # <<>> /\ s[Len(s)] \in WhiteSpace
    THEN TrimRight(SubSeq(s, 1, Len(s) - 1)) ELSE s

trim(s) == TrimRight(TrimLeft(s))

\* split on the separator class (one or more characters of sep), empty
\* pieces dropped: s.split(/\s+/g).filter(Boolean), line.split(" ").filter(Boolean)
RECURSIVE SplitOn(_, _, _, _)
SplitOn(s, sep, cur, out) ==
  IF s = <<>> THEN (IF cur = <<>> THEN out ELSE Append(out, cur))
  ELSE IF Head(s) \in sep
    THEN SplitOn(Tail(s), sep, <<>>, IF cur = <<>> THEN out ELSE Append(out, cur))
    ELSE SplitOn(Tail(s), sep, Append(cur, Head(s)), out)

\* Array.prototype.join(" ")
RECURSIVE JoinSp(_)
JoinSp(toks) ==
  IF toks = <<>> THEN <<>>
  ELSE IF Len(toks) = 1 THEN toks[1]
  ELSE toks[1] \o <<" ">> \o JoinSp(Tail(toks))

\* Array.prototype.slice(0, n)
Take(xs, n) == SubSeq(xs, 1, IF Len(xs) < n THEN Len(xs) ELSE n)

normalizeUciLine(line) == JoinSp(SplitOn(trim(line), WhiteSpace, <<>>, <<>>))

\* /\b([a-h][1-8])\s*[-:]?\s*([a-h][1-8])\s*(?:=?\s*([qrbn]))?\b/gi
UciRe ==
  << << WB, One(AnyCase(Files)), One(Ranks), Star(WhiteSpace), Opt({"-", ":"}),
        Star(WhiteSpace), One(AnyCase(Files)), One(Ranks), Star(WhiteSpace),
        Grp(3), Opt({"="}), Star(WhiteSpace), One(AnyCase(PromoLower)), WB >> >>

\* the matched text as it stands
UciTokRaw(s, m) == SubSeq(s, m[1], m[2] - 1)

\* the token of one match: from, to and promo are the only letters and digits
\* the pattern consumes, so the token is the matched text without its
\* separators, lower-cased
UciTokOf(s, m) ==
  toLowerCase(SelectChars(SubSeq(s, m[1], m[2] - 1), WordChars))

\* a push of every token, seen or not
PushAlways(out, tok) == Append(out, tok)

\* if (!seen.has(tok)) { seen.add(tok); out.push(tok); }
PushUnseen(out, tok) == IF tok \in Range(out) THEN out ELSE Append(out, tok)

\* the while loop of run.ts:58-70; m is the match exec returned
RECURSIVE UciLoop(_, _, _)
UciLoopBody(s, m, out) ==
  IF m[1] = 0 THEN out
  ELSE UciLoop(s, m[2], PushUnseen(out, UciTokOf(s, m)))

UciLoop(s, from, out) == UciLoopBody(s, ReExec(UciRe, s, from), out)

extractUciTokens(text) == UciLoop(text, 1, <<>>)

\* /\b(O-O-O|O-O|[KQRBN]?[a-h]?[1-8]?x?[a-h][1-8](?:=[QRBN])?[+#]?
\*    |[a-h]x[a-h][1-8](?:=[QRBN])?[+#]?)\b/g
SanRe ==
  << << WB, One({"O"}), One({"-"}), One({"O"}), One({"-"}), One({"O"}), WB >>,
     << WB, One({"O"}), One({"-"}), One({"O"}), WB >>,
     << WB, Opt({"K","Q","R","B","N"}), Opt(Files), Opt(Ranks), Opt({"x"}),
        One(Files), One(Ranks), Grp(2), One({"="}), One(PromoUpper),
        Opt({"+", "#"}), WB >>,
     << WB, One(Files), One({"x"}), One(Files), One(Ranks),
        Grp(2), One({"="}), One(PromoUpper), Opt({"+", "#"}), WB >> >>

\* the while loop of run.ts:80-87; m is the match exec returned
RECURSIVE SanLoop(_, _, _)
SanLoopBody(s, m, out) ==
  IF m[1] = 0 THEN out
  ELSE SanLoop(s, m[2], PushUnseen(out, SubSeq(s, m[1], m[2] - 1)))

SanLoop(s, from, out) == SanLoopBody(s, ReExec(SanRe, s, from), out)

extractSanCandidates(text) == SanLoop(text, 1, <<>>)


(***************************************************************************)
(* The rules engine (chess.js, imported at run.ts:12).  A position is the  *)
(* sequence of moves played from the initial array; new Chess(fen) is the   *)
(* sequence that leads to the FEN.  The table covers the moves below, with  *)
(* the legality chess gives them in every position they can lead to (none   *)
(* of them gives check or captures; the bishop f1 needs the pawn e2 gone,   *)
(* the pawns e4-e5 and e7-e5 exclude each other, the black pawn on e5 goes  *)
(* on to e4 when that square is empty and then blocks e2-e4, and the        *)
(* knights g1 and b8 go out and back any number of times).  A text is read  *)
(* as chess.js reads it, and names a move only if it names one of these.    *)
(***************************************************************************)
E2E4 == <<"e","2","e","4">>
E7E5 == <<"e","7","e","5">>
G1F3 == <<"g","1","f","3">>
B8C6 == <<"b","8","c","6">>
F1C4 == <<"f","1","c","4">>
E4E5 == <<"e","4","e","5">>
A7A8Q == <<"a","7","a","8","q">>
F3G1 == <<"f","3","g","1">>
C6B8 == <<"c","6","b","8">>
E5E4 == <<"e","5","e","4">>

StartFen == "rnbqkbnr/pppppppp/8/8/8/8/PPPPPPPP/RNBQKBNR w KQkq - 0 1"
AfterE4Fen == "rnbqkbnr/pppppppp/8/8/4P3/8/PPPP1PPP/RNBQKBNR b KQkq - 0 1"
AfterE4Nc6Fen == "r1bqkbnr/pppppppp/2n5/8/4P3/8/PPPP1PPP/RNBQKBNR w KQkq - 1 2"

Fens == {StartFen, AfterE4Fen}

\* new Chess(fen)
Chess(fen) ==
  IF fen = AfterE4Fen THEN <<E2E4>>
  ELSE IF fen = AfterE4Nc6Fen THEN <<E2E4, B8C6>>
  ELSE <<>>

\* chess.fen() of the positions the fetcher's games lead to
ChessFen(h) ==
  IF h = <<E2E4>> THEN AfterE4Fen
  ELSE IF h = <<E2E4, B8C6>> THEN AfterE4Nc6Fen
  ELSE StartFen

WhiteToMove(h) == Len(h) % 2 = 0

\* how often the move was played in h
Played(h, mv) == Cardinality({i \in DOMAIN h : h[i] = mv})

\* is the move (from, to squares as text) legal in position h
LegalMove(h, mv) ==
  CASE mv = E2E4 -> WhiteToMove(h) /\ E2E4 \notin Range(h) /\ E5E4 \notin Range(h)
    [] mv = G1F3 -> WhiteToMove(h) /\ Played(h, G1F3) = Played(h, F3G1)
    [] mv = F3G1 -> WhiteToMove(h) /\ Played(h, G1F3) = Played(h, F3G1) + 1
    [] mv = F1C4 -> WhiteToMove(h) /\ E2E4 \in Range(h) /\ F1C4 \notin Range(h)
    [] mv = E4E5 -> WhiteToMove(h) /\ E2E4 \in Range(h) /\ E7E5 \notin Range(h)
                                   /\ E4E5 \notin Range(h)
    [] mv = E7E5 -> ~WhiteToMove(h) /\ E7E5 \notin Range(h) /\ E4E5 \notin Range(h)
    [] mv = B8C6 -> ~WhiteToMove(h) /\ Played(h, B8C6) = Played(h, C6B8)
    [] mv = C6B8 -> ~WhiteToMove(h) /\ Played(h, B8C6) = Played(h, C6B8) + 1
    [] mv = E5E4 -> ~WhiteToMove(h) /\ E7E5 \in Range(h) /\ E2E4 \notin Range(h)
                                    /\ E5E4 \notin Range(h)
    [] OTHER -> FALSE

\* chess.move({from, to, promotion}) of run.ts:157-161: ok and the position
\* after the move, or not ok (chess.js throws on an illegal move; an older
\* chess.js returns null, which run.ts:162 treats alike).  None of the moves
\* of the table promotes, and chess.js compares the promotion piece only for
\* moves that do.
ChessMove(h, uci) ==
  LET from == SubSeq(uci, 1, 2)
      to == SubSeq(uci, 3, 4)
  IN IF LegalMove(h, from \o to)
       THEN [ok |-> TRUE, pos |-> Append(h, from \o to)]
       ELSE [ok |-> FALSE, pos |-> h]

\* the moves of the table
TableMoves == {E2E4, E7E5, G1F3, B8C6, F1C4, E4E5, F3G1, C6B8, E5E4}

WhiteMoves == {E2E4, G1F3, F1C4, E4E5, F3G1}

\* the piece that makes a move of the table, as chess.js names it
PieceOf(mv) ==
  IF mv \in {G1F3, F3G1, B8C6, C6B8} THEN "n"
  ELSE IF mv = F1C4 THEN "b"
  ELSE "p"

\* the SAN chess.js writes for a move of the table: no move of the table
\* captures, gives check or needs a disambiguation
MoveToSan(mv) ==
  IF PieceOf(mv) = "p" THEN SubSeq(mv, 3, 4)
  ELSE <<IF PieceOf(mv) = "n" THEN "N" ELSE "B">> \o SubSeq(mv, 3, 4)

RECURSIVE StripTrailing(_, _)
StripTrailing(s, chars) ==
  IF s # <<>> /\ s[Len(s)] \in chars
    THEN StripTrailing(SubSeq(s, 1, Len(s) - 1), chars)
    ELSE s

\* chess.js strippedSan: move.replace(/=/, '').replace(/[+#]?[?!]*$/, '')
StrippedSan(san) ==
  LET noEq == IF \E i \in DOMAIN san : san[i] = "="
                THEN LET k == CHOOSE i \in DOMAIN san :
                                 san[i] = "=" /\ \A j \in 1..(i - 1) : san[j] # "="
                     IN SubSeq(san, 1, k - 1) \o SubSeq(san, k + 1, Len(san))
                ELSE san
      noMarks == StripTrailing(noEq, {"?", "!"})
  IN IF noMarks # <<>> /\ noMarks[Len(noMarks)] \in {"+", "#"}
       THEN SubSeq(noMarks, 1, Len(noMarks) - 1)
       ELSE noMarks

IsSquareAt(s, i) == i + 1 <= Len(s) /\ s[i] \in Files /\ s[i + 1] \in Ranks

\* chess.js inferPieceType: the piece a SAN text is about as a text, in
\* lower case, or nothing (undefined)
InferPieceType(clean) ==
  IF clean = <<>> THEN << <<>> >>
  ELSE IF clean[1] \in Files
    THEN IF \E i, k \in DOMAIN clean : k >= i + 2 /\ clean[i] \in Files
                                        /\ clean[i + 1] \in Digits
                                        /\ clean[k] \in Files
                                        /\ k + 1 <= Len(clean)
                                        /\ clean[k + 1] \in Digits
           THEN <<>>
           ELSE << <<"p">> >>
  ELSE IF LowerChar(clean[1]) = <<"o">> THEN << <<"k">> >>
  ELSE <<LowerChar(clean[1])>>

PieceLetters == {"p", "n", "b", "r", "q", "k", "P", "N", "B", "R", "Q", "K"}

\* one way to read a text as piece, origin and target, as the expressions
\* ([pnbrqkPNBRQK])?([a-h][1-8])x?-?([a-h][1-8])([qrbnQRBN])? and
\* ([pnbrqkPNBRQK])?([a-h]?[1-8]?)x?-?([a-h][1-8])([qrbnQRBN])? of chess.js do
\* from position at: <<>> when the text does not read that way
ReadSanAt(clean, at, withPiece, fromFile, fromRank) ==
  LET p == IF withPiece THEN 1 ELSE 0
      f == IF fromFile THEN 1 ELSE 0
      r == IF fromRank THEN 1 ELSE 0
      afterFrom == at + p + f + r
      afterX == IF afterFrom <= Len(clean) /\ clean[afterFrom] = "x"
                  THEN afterFrom + 1 ELSE afterFrom
      toAt == IF afterX <= Len(clean) /\ clean[afterX] = "-"
                THEN afterX + 1 ELSE afterX
  IN IF /\ at + p + f + r - 1 <= Len(clean)
        /\ withPiece => clean[at] \in PieceLetters
        /\ fromFile => clean[at + p] \in Files
        /\ fromRank => clean[at + p + f] \in Ranks
        /\ IsSquareAt(clean, toAt)
       THEN << [piece |-> IF withPiece THEN <<clean[at]>> ELSE <<>>,
                from |-> SubSeq(clean, at + p, at + p + f + r - 1),
                to |-> SubSeq(clean, toAt, toAt + 1),
                promotion |-> IF toAt + 2 <= Len(clean)
                                   /\ clean[toAt + 2] \in AnyCase(PromoLower)
                                THEN <<clean[toAt + 2]>> ELSE <<>>] >>
       ELSE <<>>

\* the first reading among the given ones
RECURSIVE FirstReading(_, _, _)
FirstReading(clean, at, ways) ==
  IF ways = <<>> THEN <<>>
  ELSE IF ReadSanAt(clean, at, Head(ways)[1], Head(ways)[2], Head(ways)[3]) # <<>>
    THEN ReadSanAt(clean, at, Head(ways)[1], Head(ways)[2], Head(ways)[3])
  ELSE FirstReading(clean, at, Tail(ways))

\* the leftmost match of an expression whose readings, in the order the
\* matcher tries them, are ways
RECURSIVE ReadSanFrom(_, _, _)
ReadSanFrom(clean, at, ways) ==
  IF at > Len(clean) THEN <<>>
  ELSE IF FirstReading(clean, at, ways) # <<>> THEN FirstReading(clean, at, ways)
  ELSE ReadSanFrom(clean, at + 1, ways)

\* piece, origin and target of the permissive parser: the expression with a
\* whole origin square, and when it does not match the one whose origin is
\* a file, a rank, both or nothing
ReadSan(clean) ==
  IF ReadSanFrom(clean, 1, << <<TRUE, TRUE, TRUE>>, <<FALSE, TRUE, TRUE>> >>) # <<>>
    THEN ReadSanFrom(clean, 1, << <<TRUE, TRUE, TRUE>>, <<FALSE, TRUE, TRUE>> >>)
    ELSE ReadSanFrom(clean, 1,
           << <<TRUE, TRUE, TRUE>>, <<TRUE, TRUE, FALSE>>, <<TRUE, FALSE, TRUE>>,
              <<TRUE, FALSE, FALSE>>, <<FALSE, TRUE, TRUE>>, <<FALSE, TRUE, FALSE>>,
              <<FALSE, FALSE, TRUE>>, <<FALSE, FALSE, FALSE>> >>)

\* the moves among which chess.js looks for a piece (_moves({piece}), which
\* lower-cases the piece): all when there is no piece or it is the empty
\* text, else that piece's
MovesOfPiece(moves, piece) ==
  IF piece = <<>> \/ piece[1] = <<>> THEN moves
  ELSE {mv \in moves : <<PieceOf(mv)>> = toLowerCase(piece[1])}

OneOf(S) == IF S = {} THEN <<>> ELSE <<CHOOSE mv \in S : TRUE>>

\* does a move of the table fit what the permissive parser read; no move of
\* the table promotes, so a reading with a promotion fits none
FitsReading(mv, rd, clean) ==
  /\ rd.promotion = <<>>
  /\ IF rd.from = <<>>
       THEN clean = MoveToSan(mv)
       ELSE /\ rd.piece = <<>> \/ toLowerCase(rd.piece) = <<PieceOf(mv)>>
            /\ SubSeq(mv, 3, 4) = rd.to
            /\ IF Len(rd.from) = 2 THEN SubSeq(mv, 1, 2) = rd.from
               ELSE rd.from[1] \in {mv[1], mv[2]}

\* chess.js _moveFromSan(san, false) among the given moves: the move whose
\* SAN is the text, or else the move that fits the permissive reading
PermissiveSan(moves, clean, rd) ==
  IF rd = <<>> THEN <<>>
  ELSE OneOf({mv \in MovesOfPiece(moves, IF rd[1].piece # <<>> THEN <<rd[1].piece>>
                                         ELSE InferPieceType(clean)) :
                FitsReading(mv, rd[1], clean)})

MoveFromSan(moves, clean) ==
  IF \E mv \in MovesOfPiece(moves, InferPieceType(clean)) : MoveToSan(mv) = clean
    THEN OneOf({mv \in MovesOfPiece(moves, InferPieceType(clean)) :
                  MoveToSan(mv) = clean})
    ELSE PermissiveSan(moves, clean, ReadSan(clean))

\* a parser that gives the move a SAN text names for the side to move
\* whether or not it is legal
SanMoveUnchecked(h, san) ==
  MoveFromSan({mv \in TableMoves : (mv \in WhiteMoves) = WhiteToMove(h)},
              StrippedSan(san))

\* the move a SAN text names in position h under chess.move(san,
\* {strict: false}), as <<uci>>, or <<>> when chess.js throws
SanMove(h, san) ==
  MoveFromSan({mv \in TableMoves : LegalMove(h, mv)}, StrippedSan(san))

(***************************************************************************)
(* run.ts: tryParseSanToUciLine, scoreMove, isUciMove, validateUciLineLegal *)
(***************************************************************************)
\* a replay that gives up the line at the first token chess.js rejects
RECURSIVE SanReplayAborting(_, _, _, _)
SanReplayAborting(sanToks, h, uci, need) ==
  IF sanToks = <<>> \/ Len(uci) >= need THEN [uci |-> uci, pos |-> h, left |-> sanToks]
  ELSE LET mv == SanMove(h, Head(sanToks))
       IN IF mv # <<>>
            THEN SanReplayAborting(Tail(sanToks), Append(h, mv[1]),
                                   Append(uci, mv[1]), need)
            ELSE [uci |-> <<>>, pos |-> h, left |-> Tail(sanToks)]

\* the for loop of run.ts:98-107: h is the position, uci the moves so far;
\* at the end, the moves, the position, and the tokens that were not tried
RECURSIVE SanReplay(_, _, _, _)
SanReplay(sanToks, h, uci, need) ==
  IF sanToks = <<>> \/ Len(uci) >= need THEN [uci |-> uci, pos |-> h, left |-> sanToks]
  ELSE LET mv == SanMove(h, Head(sanToks))
       IN IF mv # <<>>
            THEN SanReplay(Tail(sanToks), Append(h, mv[1]), Append(uci, mv[1]), need)
            ELSE SanReplay(Tail(sanToks), h, uci, need)

\* run.ts:109: uci.length > 0 ? uci.slice(0, need).join(" ") : ""
SanLineOf(uci, need) == IF Len(uci) > 0 THEN JoinSp(Take(uci, need)) ELSE <<>>

\* run.ts:93-109 on the candidates sanToks
SanToksToUciLine(fen, need, sanToks) ==
  IF Len(sanToks) = 0 THEN <<>>
  ELSE SanLineOf(SanReplay(sanToks, Chess(fen), <<>>, need).uci, need)

tryParseSanToUciLine(fen, need, text) ==
  SanToksToUciLine(fen, need, extractSanCandidates(text))

\* a comparison that keeps the case of the letters
scoreMoveExact(expectedLine, gotLine) ==
  normalizeUciLine(expectedLine) = normalizeUciLine(gotLine)

scoreMove(expectedLine, gotLine) ==
  toLowerCase(normalizeUciLine(expectedLine)) = toLowerCase(normalizeUciLine(gotLine))

\* a shape check that looks at the length only
isUciMoveByLength(tok) == Len(trim(tok)) >= 4

\* /^[a-h][1-8][a-h][1-8][qrbn]?$/i
IsUciRe ==
  << One(AnyCase(Files)), One(Ranks), One(AnyCase(Files)), One(Ranks),
     Opt(AnyCase(PromoLower)), EOS >>

isUciMove(tok) == ReMatch(IsUciRe, 1, trim(tok), 1) # 0

\* a replay that goes on after a rejected move
RECURSIVE UciReplaySkipping(_, _, _, _)
UciReplaySkipping(moves, h, applied, tried) ==
  IF moves = <<>> THEN [isLegal |-> TRUE, appliedPlies |-> applied, tried |-> tried]
  ELSE IF ChessMove(h, Head(moves)).ok
    THEN UciReplaySkipping(Tail(moves), ChessMove(h, Head(moves)).pos, applied + 1, tried + 1)
    ELSE UciReplaySkipping(Tail(moves), h, applied, tried + 1)

\* the replay loop of run.ts:154-168; tried counts the calls of chess.move
RECURSIVE UciReplay(_, _, _, _)
UciReplay(moves, h, applied, tried) ==
  IF moves = <<>> THEN [isLegal |-> TRUE, appliedPlies |-> applied, tried |-> tried]
  ELSE LET r == ChessMove(h, Head(moves))
       IN IF r.ok
            THEN UciReplay(Tail(moves), r.pos, applied + 1, tried + 1)
            ELSE [isLegal |-> FALSE, appliedPlies |-> applied, tried |-> tried + 1]

\* a validation that replays whatever tokens the line has
ValidateRunAnyLength(fen, uciLine, needPlies) ==
  LET moves == Take(SplitOn(normalizeUciLine(uciLine), {" "}, <<>>, <<>>), needPlies)
  IN IF moves = <<>> \/ \E i \in DOMAIN moves : ~isUciMove(moves[i])
       THEN [isLegal |-> FALSE, appliedPlies |-> 0, tried |-> 0]
       ELSE UciReplay(moves, Chess(fen), 0, 0)

\* validateUciLineLegal with the number of chess.move calls it made
ValidateRun(fen, uciLine, needPlies) ==
  LET line == normalizeUciLine(uciLine)
      moves == Take(SplitOn(line, {" "}, <<>>, <<>>), needPlies)
      reject == [isLegal |-> FALSE, appliedPlies |-> 0, tried |-> 0]
  IN IF line = <<>> THEN reject
     ELSE IF Len(moves) # needPlies THEN reject
     ELSE IF \E i \in DOMAIN moves : ~isUciMove(moves[i]) THEN reject
     ELSE UciReplay(moves, Chess(fen), 0, 0)

validateUciLineLegal(fen, uciLine, needPlies) ==
  LET r == ValidateRun(fen, uciLine, needPlies)
  IN [isLegal |-> r.isLegal, appliedPlies |-> r.appliedPlies]

(***************************************************************************)
(* run.ts: callOpenRouter's request and evalOne                             *)
(***************************************************************************)
\* an optional value (x?: T): None is undefined
None == <<>>
Some(x) == <<x>>

DefaultMaxTokens == 128
RetryFactor == 4
RetryFloor == 256
RetryCeiling == 1024

Min2(a, b) == IF a < b THEN a ELSE b
Max2(a, b) == IF a > b THEN a ELSE b

\* body.max_tokens of callOpenRouter: opts?.maxTokensOverride ?? model.maxTokens ?? 128
max_tokens(m, maxTokensOverride) ==
  IF maxTokensOverride # None THEN maxTokensOverride[1]
  ELSE IF m.maxTokens # None THEN m.maxTokens[1]
  ELSE DefaultMaxTokens

\* model.maxTokens ?? 128
configuredMax(m) ==
  IF m.maxTokens # None THEN m.maxTokens[1] ELSE DefaultMaxTokens

\* typeof completionTokens === "number" && completionTokens >= configuredMax
hitLimit(m, completionTokens) ==
  completionTokens # None /\ completionTokens[1] >= configuredMax(m)

\* Math.min(Math.max(configuredMax * 4, 256), 1024)
retryMax(m) ==
  Min2(Max2(configuredMax(m) * RetryFactor, RetryFloor), RetryCeiling)

\* a fallback that names its method whatever it found
ParseSanAlways(sanLine) == [parsed |-> sanLine, parseMethod |-> "san"]

\* run.ts:284-287: the SAN fallback's line, when it is not empty
ParseSan(sanLine) ==
  IF Len(sanLine) > 0 THEN [parsed |-> sanLine, parseMethod |-> "san"]
  ELSE [parsed |-> <<>>, parseMethod |-> "none"]

\* a parse that records every line it finds as a UCI line
ParseUciOneLabel(pz, content, uciLine) ==
  IF Len(uciLine) > 0 THEN [parsed |-> uciLine, parseMethod |-> "uci"]
  ELSE LET p == ParseSan(tryParseSanToUciLine(pz.fen, requiredPlies(pz.level), content))
       IN [p EXCEPT !.parseMethod = IF @ = "san" THEN "uci" ELSE @]

\* run.ts:280-287: the UCI line when it is not empty, else the SAN fallback
ParseUci(pz, content, uciLine) ==
  IF Len(uciLine) > 0 THEN [parsed |-> uciLine, parseMethod |-> "uci"]
  ELSE ParseSan(tryParseSanToUciLine(pz.fen, requiredPlies(pz.level), content))

\* run.ts:278-287 (first response) and 302-309 (retry response)
ParseContent(pz, content) ==
  ParseUci(pz, content,
           JoinSp(Take(extractUciTokens(content), requiredPlies(pz.level))))

\* a retry whenever the token limit was hit
ShouldRetryOnLimit(m, parsed, completionTokens) == hitLimit(m, completionTokens)

\* run.ts:293: retry when nothing was parsed and the token limit was hit
ShouldRetry(m, parsed, completionTokens) ==
  Len(parsed) = 0 /\ hitLimit(m, completionTokens)

\* run.ts:312-315
Legality(pz, parsed) ==
  IF Len(parsed) > 0
    THEN validateUciLineLegal(pz.fen, parsed, requiredPlies(pz.level))
    ELSE [isLegal |-> FALSE, appliedPlies |-> 0]

\* a score that does not look at legality
IsCorrectByScore(pz, parsed) ==
  Len(parsed) > 0 /\ scoreMove(pz.solutionUci, parsed)

\* run.ts:316
IsCorrect(pz, parsed) ==
  Len(parsed) > 0 /\ Legality(pz, parsed).isLegal
    /\ scoreMove(pz.solutionUci, parsed)

\* run.ts:318-328, the record evalOne returns
EvalResult(pz, p, resp) ==
  [move |-> p.parsed,
   isCorrect |-> IsCorrect(pz, p.parsed),
   isLegal |-> IF Len(p.parsed) > 0 THEN Some(Legality(pz, p.parsed).isLegal) ELSE None,
   parseMethod |-> p.parseMethod,
   rawOutput |-> resp.content,
   latencyMs |-> resp.latencyMs,
   promptTokens |-> resp.promptTokens,
   completionTokens |-> resp.completionTokens,
   totalTokens |-> resp.totalTokens]

(***************************************************************************)
(* Inputs: puzzles, models, response texts                                 *)
(***************************************************************************)
SolMate2 == JoinSp(<<E2E4, E7E5, G1F3>>)
SolMate3 == JoinSp(<<E2E4, E7E5, G1F3, B8C6, F1C4>>)
\* a line in which the knight g1 goes to f3 twice
SolKnights == JoinSp(<<G1F3, B8C6, F3G1, C6B8, G1F3>>)

\* p5's solution line is shorter than its level requires: run.ts reads the
\* puzzle files as they are (run.ts:376)
Puzzles ==
  { [id |-> "p1", level |-> "mate1", fen |-> StartFen, solutionUci |-> G1F3],
    [id |-> "p2", level |-> "mate2", fen |-> StartFen, solutionUci |-> SolMate2],
    [id |-> "p3", level |-> "mate3", fen |-> StartFen, solutionUci |-> SolMate3],
    [id |-> "p4", level |-> "mate1", fen |-> AfterE4Fen, solutionUci |-> E7E5],
    [id |-> "p5", level |-> "mate2", fen |-> StartFen, solutionUci |-> E2E4],
    [id |-> "p6", level |-> "mate3", fen |-> StartFen, solutionUci |-> SolKnights] }

Models ==
  { [id |-> "m-default", maxTokens |-> None],
    [id |-> "m-32", maxTokens |-> Some(32)],
    [id |-> "m-300", maxTokens |-> Some(300)],
    [id |-> "m-1024", maxTokens |-> Some(1024)],
    [id |-> "m-2000", maxTokens |-> Some(2000)] }

\* the pieces message texts are made of: UCI moves (plain, with a separator,
\* with a promotion written =Q), SAN moves and a word that is no move
Lexemes ==
  { E2E4, E7E5, G1F3,
    <<"e","2","-","e","4">>,
    <<"a","7","a","8","=","Q">>,
    <<"N","f","3">>, <<"e","4">>, <<"N","c","6">>,
    <<"Q","f","8","#">>,
    <<"m","a","t","e">> }

MaxLex == 2

\* texts of up to MaxLex pieces; the text without a piece is the empty text,
\* which a service sends as message.content when the model wrote nothing
ShortTexts ==
  UNION { {JoinSp(ls) : ls \in [1..k -> Lexemes]} : k \in 0..MaxLex }

\* whole lines, longer than MaxLex: the solutions, lines with an illegal or a
\* different move, SAN lines, upper case and irregular white space
LongTexts ==
  { SolMate2,
    SolMate3,
    SolKnights,
    JoinSp(<<E2E4, G1F3, E7E5>>),
    JoinSp(<<E2E4, E7E5, F1C4, B8C6, G1F3>>),
    JoinSp(<<E2E4, E7E5, G1F3, B8C6, E2E4, F1C4>>),
    <<"E","2","E","4"," "," ","e","7",":","e","5","\n","g","1","f","3","\n">>,
    JoinSp(<< <<"N","f","3">>, <<"N","c","6">>, <<"e","4">> >>),
    JoinSp(<< <<"e","4">>, <<"e","5">>, <<"N","f","3">>, <<"N","c","6">>, <<"B","c","4">> >>),
    JoinSp(<< <<"e","4">>, <<"N","c","6">>, <<"e","5">>, <<"Q","f","8","#">> >>),
    JoinSp(<< <<"N","f","3">>, <<"e","5">>, <<"N","g","1">>, <<"e","4">> >>),
    JoinSp(<< <<"N","g","f","3">>, <<"N","b","8","c","6">>, <<"N","3","g","1">>,
              <<"e","e","5">>, <<"N","x","f","3">> >>),
    <<"e","2","U+00A0","e","4","\f","e","7","e","5">>,
    <<"U+00C9">> \o E2E4 \o <<"U+212A", " ">> \o E7E5 \o <<"U+03A3", " ">>
      \o <<"G","1","F","3">> }

\* the strings a response of the service holds as choices[0].message.content
MessageTexts == ShortTexts \cup LongTexts

\* JSON.stringify of a string (run.ts:173): the quotation mark, the reverse
\* solidus and the control characters are escaped
JsonChar(c) ==
  CASE c = "\"" -> <<"\\", "\"">>
    [] c = "\\" -> <<"\\", "\\">>
    [] c = "\n" -> <<"\\", "n">>
    [] c = "\t" -> <<"\\", "t">>
    [] c = "\r" -> <<"\\", "r">>
    [] c = "\f" -> <<"\\", "f">>
    [] c = "U+000B" -> <<"\\", "u", "0", "0", "0", "b">>
    [] OTHER -> <<c>>

RECURSIVE JsonChars(_)
JsonChars(str) ==
  IF str = <<>> THEN <<>> ELSE JsonChar(Head(str)) \o JsonChars(Tail(str))

JsonString(str) == <<"\"">> \o JsonChars(str) \o <<"\"">>

\* Array.prototype.join
RECURSIVE JoinWith(_, _)
JoinWith(parts, sep) ==
  IF parts = <<>> THEN <<>>
  ELSE IF Len(parts) = 1 THEN parts[1]
  ELSE parts[1] \o sep \o JoinWith(Tail(parts), sep)

\* filter(Boolean) on texts: those that are not empty
NonEmptyParts(parts) == SelectSeq(parts, LAMBDA t : t # <<>>)

\* choices[0] of a response as far as extractOpenRouterText reads it:
\* message.content (absent, null, a string, or an array of strings),
\* message.reasoning (a string or absent), message.reasoning_details (an
\* array of objects with a text, or absent) and text (a string or absent)
Choice(content, reasoning, details, text) ==
  [content |-> content, reasoning |-> reasoning, details |-> details,
   text |-> text]

ContentAbsent == [kind |-> "absent", str |-> <<>>, parts |-> <<>>]
ContentNull == [kind |-> "null", str |-> <<>>, parts |-> <<>>]
ContentString(str) == [kind |-> "string", str |-> str, parts |-> <<>>]
ContentArray(parts) == [kind |-> "array", str |-> <<>>, parts |-> parts]

\* JSON.stringify of an array whose elements are written by Elem
JsonArray(parts, Elem(_)) ==
  <<"[">> \o JoinWith([i \in DOMAIN parts |-> Elem(parts[i])], <<",">>) \o <<"]">>

JsonTextObject(t) ==
  <<"{">> \o JsonString(<<"t","e","x","t">>) \o <<":">> \o JsonString(t) \o <<"}">>

JsonMember(name, value) == JsonString(name) \o <<":">> \o value

JsonObject(members) == <<"{">> \o JoinWith(members, <<",">>) \o <<"}">>

\* run.ts:170-177 on choices[0]: its members in the order message (content,
\* reasoning, reasoning_details), text; a member that is absent is left out
safeJsonStringify(ch) ==
  JsonObject(
    << JsonMember(<<"m","e","s","s","a","g","e">>,
         JsonObject(
           (IF ch.content.kind = "absent" THEN <<>>
            ELSE << JsonMember(<<"c","o","n","t","e","n","t">>,
                      IF ch.content.kind = "null" THEN <<"n","u","l","l">>
                      ELSE IF ch.content.kind = "string"
                        THEN JsonString(ch.content.str)
                      ELSE JsonArray(ch.content.parts, JsonString)) >>)
           \o (IF ch.reasoning = None THEN <<>>
               ELSE << JsonMember(<<"r","e","a","s","o","n","i","n","g">>,
                         JsonString(ch.reasoning[1])) >>)
           \o (IF ch.details = None THEN <<>>
               ELSE << JsonMember(<<"r","e","a","s","o","n","i","n","g","_",
                                    "d","e","t","a","i","l","s">>,
                         JsonArray(ch.details[1], JsonTextObject)) >>))) >>
    \o (IF ch.text = None THEN <<>>
        ELSE << JsonMember(<<"t","e","x","t">>, JsonString(ch.text[1])) >>))

\* run.ts:179-218
extractOpenRouterText(ch) ==
  IF ch.content.kind = "string" /\ trim(ch.content.str) # <<>>
    THEN ch.content.str
  ELSE IF ch.content.kind = "array" /\ NonEmptyParts(ch.content.parts) # <<>>
    THEN JoinWith(NonEmptyParts(ch.content.parts), <<>>)
  ELSE IF ch.reasoning # None /\ trim(ch.reasoning[1]) # <<>>
    THEN ch.reasoning[1]
  ELSE IF ch.details # None /\ NonEmptyParts(ch.details[1]) # <<>>
    THEN JoinWith(NonEmptyParts(ch.details[1]), <<"\n">>)
  ELSE IF ch.text # None /\ trim(ch.text[1]) # <<>>
    THEN ch.text[1]
  ELSE safeJsonStringify(ch)

\* the first choices of the responses of the service: a message with a
\* content string and nothing else, and choices with a content that is
\* absent, null, blank or an array, with and without a reasoning, reasoning
\* details and a text
Choices ==
  { Choice(ContentString(str), None, None, None) : str \in MessageTexts }
  \cup
  { Choice(ContentAbsent, None, None, None),
    Choice(ContentNull, None, None, None),
    Choice(ContentString(<<" ", " ">>), None, None, None),
    Choice(ContentString(<<"\t", "\n">>), None, None, None),
    Choice(ContentArray(<<>>), None, None, None),
    Choice(ContentArray(<< <<"e","2">>, <<>>, <<"e","4">> >>), None, None, None),
    Choice(ContentArray(<< <<" ">> >>), None, None, None),
    Choice(ContentArray(<< <<>>, <<>> >>),
           Some(JoinSp(<< <<"N","f","3">>, <<"N","c","6">>, <<"e","4">> >>)),
           None, None),
    Choice(ContentString(<<>>), Some(<<" ">>),
           Some(<< E2E4, <<>>, E7E5 >>), None),
    Choice(ContentString(<<>>), None, Some(<<>>), Some(G1F3)),
    Choice(ContentString(<<>>), Some(<<>>), Some(<< <<>> >>), Some(<<" ">>)) }

\* the texts callOpenRouter returns as content (run.ts:264)
Contents == {extractOpenRouterText(ch) : ch \in Choices}

\* ParseContent and EvalResult over the inputs, evaluated once: evalOne's
\* parse of a text, and the record it returns for it (the token count of the
\* response is filled in by the action)
Tabulate(f) == f @@ <<>>

\* the latencies callOpenRouter measures
Latencies == {1, 2}

\* run.ts:263-270, what callOpenRouter returns: the text c, the measured
\* latency, and the token counts of the usage, which are absent together or
\* are a prompt of 20 tokens and a completion of ct tokens
Response(c, ct, lat) ==
  [content |-> c,
   latencyMs |-> lat,
   promptTokens |-> IF ct = None THEN None ELSE Some(20),
   completionTokens |-> ct,
   totalTokens |-> IF ct = None THEN None ELSE Some(20 + ct[1])]

ParseMemo ==
  Tabulate([pz \in Puzzles |-> Tabulate([c \in Contents |-> ParseContent(pz, c)])])

ResultMemo ==
  Tabulate([pz \in Puzzles |-> Tabulate([c \in Contents |->
     EvalResult(pz, ParseMemo[pz][c], Response(c, None, 0))])])

ParseOf(pz, c) == ParseMemo[pz][c]

ResultOf(pz, r) ==
  [ResultMemo[pz][r.content] EXCEPT !.latencyMs = r.latencyMs,
                                    !.promptTokens = r.promptTokens,
                                    !.completionTokens = r.completionTokens,
                                    !.totalTokens = r.totalTokens]

\* usage.completion_tokens of a response: absent, below the budget, at it
TokenCounts(budget) == {None, Some(budget - 1), Some(budget)}

(***************************************************************************)
(* State.  Spec: one evaluation (evalOne).  SpecValidate and SpecSan: one   *)
(* call of validateUciLineLegal and of tryParseSanToUciLine.  SpecRun: one  *)
(* run of main, with asyncPool's workers.                                   *)
(***************************************************************************)
VARIABLES
  apiKey,            \* process.env.OPENROUTER_API_KEY is set
  model,             \* evalOne's model
  puzzle,            \* evalOne's puzzle
  pc,                \* where evalOne is: start, await1, await2, done, rejected
  calls,             \* body.max_tokens of each request sent, in order
  invoked,           \* number of callOpenRouter invocations
  response,          \* content and completionTokens as evalOne holds them
  parse,             \* parsed and parseMethod as evalOne holds them
  first,             \* history: the line parsed from the first response and
                     \* the first response's completionTokens
  result,            \* the record evalOne returned, or None
  steps,             \* history: the steps evalOne has taken, in order
  vArgs,             \* validateUciLineLegal's arguments
  vRet,              \* what it returned, with the number of chess.move calls
  sArgs,             \* tryParseSanToUciLine's arguments
  sRet,              \* the line it returned
  xArgs,             \* the text given to extractUciTokens and extractSanCandidates
  xRet,              \* the token lists they returned
  cArgs,             \* scoreMove's arguments
  cRet,              \* what it returned
  rKey,              \* process.env.OPENROUTER_API_KEY is set, in a run
  rConc,             \* Number(process.env.BENCH_CONCURRENCY ?? "3")
  rExisting,         \* the results of the existing snapshot, per model and puzzle
  rOldModels,        \* the ids of existingSnapshot.models
  rFile,             \* the results in public/results/latest.json
  rFileModels,       \* the ids of the models in public/results/latest.json
  rStored,           \* snapshotPuzzles[i].results[model.id]
  rToTest,           \* modelsToTest
  rBatch,            \* the index in modelsToTest of the for loop of main
  rPool,             \* asyncPool's nextIndex and results
  rWorkers,          \* asyncPool's workers: where each is, and its idx
  rPhase,            \* where main is: start, pool, writing, written, exited
  rFailed,           \* history: the units <<model id, idx>> whose evalOne rejected
  rTaken,            \* history: per index, the calls of fn in the current asyncPool
  rCalls,            \* history: the requests sent, per model
  pArgs,             \* parsePuzzle's arguments
  pRet,              \* what it returned
  fArgs,             \* collectPuzzles' arguments
  fCollected,        \* collected
  fSeen,             \* seenIds
  fRetries,          \* retries
  fPc,               \* where collectPuzzles and the fetcher's main are
  fFile              \* bench/puzzles.mate1.json

evalVars == <<apiKey, model, puzzle, pc, calls, invoked, response, parse,
              first, result, steps>>

textVars == <<xArgs, xRet, cArgs, cRet>>

fnVars == <<vArgs, vRet, sArgs, sRet, textVars>>

runVars == <<rKey, rConc, rExisting, rOldModels,
                 rFileModels, rFile, rStored, rToTest, rBatch, rPool,
            rWorkers, rPhase, rFailed, rTaken, rCalls>>

fetchVars == <<pArgs, pRet, fArgs, fCollected, fSeen, fRetries, fPc, fFile>>

vars == <<evalVars, fnVars, runVars, fetchVars>>

\* the value of response before callOpenRouter has returned
NoResponse == Response(<<>>, None, 0)
NoParse == [parsed |-> <<>>, parseMethod |-> "none"]

InitEval ==
  /\ apiKey \in BOOLEAN
  /\ model \in Models
  /\ puzzle \in Puzzles
  /\ pc = "start"
  /\ calls = <<>>
  /\ invoked = 0
  /\ response = NoResponse
  /\ parse = NoParse
  /\ first = None
  /\ result = None
  /\ steps = <<>>

\* no evaluation is modelled
IdleEval ==
  /\ apiKey = TRUE
  /\ model = [id |-> "m-default", maxTokens |-> None]
  /\ puzzle = [id |-> "p1", level |-> "mate1", fen |-> StartFen, solutionUci |-> G1F3]
  /\ pc = "idle"
  /\ calls = <<>>
  /\ invoked = 0
  /\ response = NoResponse
  /\ parse = NoParse
  /\ first = None
  /\ result = None
  /\ steps = <<>>

\* no call of the extractors or of scoreMove is modelled
IdleText ==
  /\ xArgs = None
  /\ xRet = None
  /\ cArgs = None
  /\ cRet = None

\* no function call is modelled
IdleFn ==
  /\ vArgs = None
  /\ vRet = None
  /\ sArgs = None
  /\ sRet = None
  /\ IdleText

\* what Number(text) gives: a natural number, NaN for a text that is no
\* number, or Infinity
Finite(n) == [is |-> "number", n |-> n]

NotANumber == [is |-> "NaN", n |-> 0]

Infinite == [is |-> "Infinity", n |-> 0]

\* no run is modelled
IdleRun ==
  /\ rKey = TRUE
  /\ rConc = Finite(0)
  /\ rExisting = None
  /\ rOldModels = {}
  /\ rFile = None
  /\ rFileModels = {}
  /\ rStored = None
  /\ rToTest = <<>>
  /\ rBatch = 0
  /\ rPool = None
  /\ rWorkers = <<>>
  /\ rPhase = "idle"
  /\ rFailed = {}
  /\ rTaken = None
  /\ rCalls = None

\* no call of the fetcher is modelled
IdleFetch ==
  /\ pArgs = None
  /\ pRet = None
  /\ fArgs = None
  /\ fCollected = <<>>
  /\ fSeen = {}
  /\ fRetries = 0
  /\ fPc = "idle"
  /\ fFile = None

notEval == <<fnVars, runVars, fetchVars>>

\* run.ts:275 and callOpenRouter up to the fetch (run.ts:225-255): without an
\* API key the call throws before any request is sent
CallFirst ==
  /\ pc = "start"
  /\ invoked' = invoked + 1
  /\ steps' = steps \o <<"prompt", "call">>
  /\ IF apiKey
       THEN /\ calls' = Append(calls, max_tokens(model, None))
            /\ pc' = "await1"
       ELSE /\ calls' = calls
            /\ pc' = "rejected"
  /\ UNCHANGED <<apiKey, model, puzzle, response, parse, first, result>>
  /\ UNCHANGED notEval

\* run.ts:258-261: the response is not ok and callOpenRouter throws; evalOne
\* has no try/catch, so it rejects
FirstFails ==
  /\ pc = "await1"
  /\ pc' = "rejected"
  /\ UNCHANGED <<apiKey, model, puzzle, calls, invoked, response, parse,
                 first, result, steps>>
  /\ UNCHANGED notEval

\* an evaluation that validates the first line and keeps its result before it
\* sends the retry
FirstResponseEager ==
  /\ pc = "await1"
  /\ \E c \in Contents, ct \in TokenCounts(configuredMax(model)), lat \in Latencies :
       LET r == Response(c, ct, lat)
           p == ParseOf(puzzle, c)
       IN /\ response' = r
          /\ parse' = p
          /\ first' = Some([parsed |-> p.parsed, completionTokens |-> ct])
          /\ result' = Some(ResultOf(puzzle, r))
          /\ IF ShouldRetry(model, p.parsed, ct)
               THEN /\ invoked' = invoked + 1
                    /\ calls' = Append(calls, max_tokens(model, Some(retryMax(model))))
                    /\ pc' = "await2"
                    /\ steps' = steps \o <<"response", "parse", "validate", "call">>
               ELSE /\ invoked' = invoked
                    /\ calls' = calls
                    /\ pc' = "done"
                    /\ steps' = steps \o <<"response", "parse", "validate", "return">>
  /\ UNCHANGED <<apiKey, model, puzzle>>
  /\ UNCHANGED notEval

\* run.ts:263-295 and, without a retry, 312-328: the first response arrives,
\* is parsed, and evalOne either sends the retry or validates and returns
FirstResponse ==
  /\ pc = "await1"
  /\ \E c \in Contents, ct \in TokenCounts(configuredMax(model)), lat \in Latencies :
       LET r == Response(c, ct, lat)
           p == ParseOf(puzzle, c)
       IN /\ response' = r
          /\ parse' = p
          /\ first' = Some([parsed |-> p.parsed, completionTokens |-> ct])
          /\ IF ShouldRetry(model, p.parsed, ct)
               THEN /\ invoked' = invoked + 1
                    /\ calls' = Append(calls, max_tokens(model, Some(retryMax(model))))
                    /\ pc' = "await2"
                    /\ result' = result
                    /\ steps' = steps \o <<"response", "parse", "call">>
               ELSE /\ invoked' = invoked
                    /\ calls' = calls
                    /\ pc' = "done"
                    /\ result' = Some(ResultOf(puzzle, r))
                    /\ steps' = steps \o <<"response", "parse", "validate", "return">>
  /\ UNCHANGED <<apiKey, model, puzzle>>
  /\ UNCHANGED notEval

\* the retry's response is not ok: callOpenRouter throws at run.ts:295
RetryFails ==
  /\ pc = "await2"
  /\ pc' = "rejected"
  /\ UNCHANGED <<apiKey, model, puzzle, calls, invoked, response, parse,
                 first, result, steps>>
  /\ UNCHANGED notEval

\* an evaluation that retries again while the retry hits the limit
RetryResponseAgain ==
  /\ pc = "await2"
  /\ invoked < 4
  /\ \E c \in Contents, ct \in TokenCounts(retryMax(model)), lat \in Latencies :
       LET r == Response(c, ct, lat)
           p == ParseOf(puzzle, c)
       IN /\ response' = r
          /\ parse' = p
          /\ IF ShouldRetry(model, p.parsed, ct)
               THEN /\ invoked' = invoked + 1
                    /\ pc' = "await2"
                    /\ result' = result
               ELSE /\ invoked' = invoked
                    /\ pc' = "done"
                    /\ result' = Some(ResultOf(puzzle, r))
  /\ UNCHANGED <<apiKey, model, puzzle, calls, first, steps>>
  /\ UNCHANGED notEval

\* a retry whose result adds the latency of the first call and keeps the
\* first call's token counts
RetryResponseKeepsFirst ==
  /\ pc = "await2"
  /\ \E c \in Contents, ct \in TokenCounts(retryMax(model)), lat \in Latencies :
       LET r == Response(c, ct, lat)
           p == ParseOf(puzzle, c)
       IN /\ response' = r
          /\ parse' = p
          /\ pc' = "done"
          /\ result' = Some([ResultOf(puzzle, r) EXCEPT
                               !.latencyMs = response.latencyMs + lat,
                               !.promptTokens = response.promptTokens,
                               !.completionTokens = response.completionTokens,
                               !.totalTokens = response.totalTokens])
  /\ steps' = steps \o <<"response", "parse", "validate", "return">>
  /\ UNCHANGED <<apiKey, model, puzzle, calls, invoked, first>>
  /\ UNCHANGED notEval

\* run.ts:296-328: the retry's response replaces the first, is parsed,
\* validated and returned
RetryResponse ==
  /\ pc = "await2"
  /\ \E c \in Contents, ct \in TokenCounts(retryMax(model)), lat \in Latencies :
       LET r == Response(c, ct, lat)
           p == ParseOf(puzzle, c)
       IN /\ response' = r
          /\ parse' = p
          /\ pc' = "done"
          /\ result' = Some(ResultOf(puzzle, r))
  /\ steps' = steps \o <<"response", "parse", "validate", "return">>
  /\ UNCHANGED <<apiKey, model, puzzle, calls, invoked, first>>
  /\ UNCHANGED notEval

NextEval ==
  \/ CallFirst
  \/ FirstFails
  \/ FirstResponse
  \/ RetryFails
  \/ RetryResponse

Init == InitEval /\ IdleFn /\ IdleRun /\ IdleFetch

Next == NextEval

Spec == Init /\ [][Next]_vars

(***************************************************************************)
(* SpecValidate: validateUciLineLegal on lines of up to MaxLineToks tokens  *)
(***************************************************************************)
\* tokens of the lines: moves, an upper-case move, a token one character too
\* long, a move with a promotion letter, a token that is too short
LineTokens ==
  { E2E4, E7E5, G1F3,
    <<"E","2","E","4">>,
    <<"e","2","e","4","x">>,
    <<"g","1","f","3","q">>,
    <<"e","2">> }

MaxLineToks == 4

\* lines with irregular white space
SpacedLines ==
  { <<" ">>,
    <<" ", " ">> \o E2E4 \o <<"\t", " ">> \o E7E5 \o <<"\n">> \o G1F3 \o <<" ">>,
    <<"\t">> \o G1F3 \o <<" ", " ">>,
    <<"\f">> \o E2E4 \o <<"U+00A0">> \o E7E5 \o <<"U+2028", "U+FEFF">> \o G1F3 }

Lines ==
  UNION { {JoinSp(ts) : ts \in [1..k -> LineTokens]} : k \in 0..MaxLineToks }
    \cup SpacedLines

\* the ply counts run.ts asks for: requiredPlies of a level
Needs == {requiredPlies(l) : l \in {"mate1", "mate2"}}

InitValidate ==
  /\ vArgs \in [fen : Fens, uciLine : Lines, needPlies : Needs]
  /\ vRet = None
  /\ sArgs = None
  /\ sRet = None
  /\ IdleText
  /\ IdleEval
  /\ IdleRun
  /\ IdleFetch

\* run.ts:142-169, one call
CallValidate ==
  /\ vRet = None
  /\ vRet' = Some(ValidateRun(vArgs.fen, vArgs.uciLine, vArgs.needPlies))
  /\ UNCHANGED <<evalVars, vArgs, sArgs, sRet, textVars, runVars,
               fetchVars>>

NextValidate == CallValidate

SpecValidate == InitValidate /\ [][NextValidate]_vars

(***************************************************************************)
(* SpecSan: tryParseSanToUciLine on the response texts                      *)
(***************************************************************************)
InitSan ==
  /\ sArgs \in [fen : Fens, need : {requiredPlies(l) : l \in Levels}, text : Contents]
  /\ sRet = None
  /\ vArgs = None
  /\ vRet = None
  /\ IdleText
  /\ IdleEval
  /\ IdleRun
  /\ IdleFetch

\* run.ts:91-110, one call
CallTryParse ==
  /\ sRet = None
  /\ sRet' = Some(tryParseSanToUciLine(sArgs.fen, sArgs.need, sArgs.text))
  /\ UNCHANGED <<evalVars, vArgs, vRet, sArgs, textVars, runVars,
               fetchVars>>

NextSan == CallTryParse

SpecSan == InitSan /\ [][NextSan]_vars

(***************************************************************************)
(* SpecExtract: extractUciTokens and extractSanCandidates on the response   *)
(* texts                                                                    *)
(***************************************************************************)
InitExtract ==
  /\ xArgs \in [text : Contents]
  /\ xRet = [uci |-> None, san |-> None]
  /\ cArgs = None
  /\ cRet = None
  /\ vArgs = None
  /\ vRet = None
  /\ sArgs = None
  /\ sRet = None
  /\ IdleEval
  /\ IdleRun
  /\ IdleFetch

\* run.ts:53-72, one call
CallExtractUci ==
  /\ xRet.uci = None
  /\ xRet' = [xRet EXCEPT !.uci = Some(extractUciTokens(xArgs.text))]
  /\ UNCHANGED <<evalVars, vArgs, vRet, sArgs, sRet, xArgs, cArgs, cRet, runVars,
               fetchVars>>

\* run.ts:74-89, one call
CallExtractSan ==
  /\ xRet.san = None
  /\ xRet' = [xRet EXCEPT !.san = Some(extractSanCandidates(xArgs.text))]
  /\ UNCHANGED <<evalVars, vArgs, vRet, sArgs, sRet, xArgs, cArgs, cRet, runVars,
               fetchVars>>

NextExtract ==
  \/ CallExtractUci
  \/ CallExtractSan

SpecExtract == InitExtract /\ [][NextExtract]_vars

(***************************************************************************)
(* SpecScore: scoreMove on lines of up to MaxScoreToks tokens, in either    *)
(* case, with white space before, between and after the tokens              *)
(***************************************************************************)
ScoreToks == {E2E4, <<"E","2","E","4">>, E7E5}

MaxScoreToks == 2

\* the lines of k tokens, each followed by a space
RECURSIVE ScoreBodies(_)
ScoreBodies(k) ==
  IF k = 0 THEN {<<>>}
  ELSE {b \o t \o <<" ">> : b \in ScoreBodies(k - 1), t \in ScoreToks}

\* the lines as they are, after a line break, and trimmed; lines with other
\* white space, two moves written as one token, and lines with letters
\* outside ASCII
ScoreLines ==
  UNION { {lead \o b : lead \in {<<>>, <<"\n">>}, b \in ScoreBodies(k)} \cup
          {trim(b) : b \in ScoreBodies(k)} : k \in 0..MaxScoreToks }
    \cup { E2E4 \o <<" ", "\t", " ">> \o E7E5,
           <<"\t">> \o E2E4 \o <<"\r", "\n">> \o E2E4 \o <<" ", " ">>,
           <<"U+FEFF">> \o E2E4 \o <<"\f", "U+00A0">> \o E7E5 \o <<"U+3000">>,
           E2E4 \o E7E5,
           <<"e","7","e","8","U+212A">>, <<"e","7","e","8","k">>,
           <<"U+00C9">>, <<"U+00E9">>, <<"U+0130">>, <<"i","U+0307">>,
           <<"a","U+03A3", "U+FEFF">>, <<"a","U+03C2">>, <<"a","U+03C3">> }

InitScore ==
  /\ cArgs \in [expectedLine : ScoreLines, gotLine : ScoreLines]
  /\ cRet = None
  /\ xArgs = None
  /\ xRet = None
  /\ vArgs = None
  /\ vRet = None
  /\ sArgs = None
  /\ sRet = None
  /\ IdleEval
  /\ IdleRun
  /\ IdleFetch

\* run.ts:112-114, one call
CallScoreMove ==
  /\ cRet = None
  /\ cRet' = Some(scoreMove(cArgs.expectedLine, cArgs.gotLine))
  /\ UNCHANGED <<evalVars, vArgs, vRet, sArgs, sRet, xArgs, xRet, cArgs, runVars,
               fetchVars>>

NextScore == CallScoreMove

SpecScore == InitScore /\ [][NextScore]_vars

(***************************************************************************)
(* fetch-lichess.ts: tokenizePgnMoves, positionAfterPlies,                  *)
(* puzzlePosFromGameAndSolution, parsePuzzle                                *)
(***************************************************************************)
\* /^\d+\.(\.\.)?$/, /^\d+\.\.\.$/, /^\d+\.$/
MoveNumberRe ==
  << << One(Digits), Star(Digits), One({"."}), Grp(2), One({"."}), One({"."}), EOS >>,
     << One(Digits), Star(Digits), One({"."}), One({"."}), One({"."}), EOS >>,
     << One(Digits), Star(Digits), One({"."}), EOS >> >>

isMoveNumber(t) == MatchAlts(MoveNumberRe, t, 1) # 0

isResult(t) ==
  t \in { <<"1","-","0">>, <<"0","-","1">>,
          <<"1","/","2","-","1","/","2">>, <<"*">> }

tokenizePgnMoves(pgn) ==
  SelectSeq(SplitOn(trim(pgn), WhiteSpace, <<>>, <<>>),
            LAMBDA t : ~isMoveNumber(t) /\ ~isResult(t))

\* the for loop of fetch-lichess.ts:81-91: h is the position, last is
\* lastMoveUci; None when chess.move throws
RECURSIVE PgnReplay(_, _, _)
PgnReplay(moves, h, last) ==
  IF moves = <<>> THEN Some([pos |-> h, lastMoveUci |-> last])
  ELSE LET mv == SanMove(h, Head(moves))
       IN IF mv = <<>> THEN None
          ELSE PgnReplay(Tail(moves), Append(h, mv[1]), Some(mv[1]))

\* fetch-lichess.ts:93
PosOf(replayed) ==
  IF replayed = None THEN None
  ELSE Some([fen |-> ChessFen(replayed[1].pos),
             lastMoveUci |-> replayed[1].lastMoveUci])

positionAfterPlies(gamePgn, plies) ==
  PosOf(PgnReplay(Take(tokenizePgnMoves(gamePgn), plies), <<>>, None))

\* applyUciMove on a position built with new Chess(fen)
applyUciMove(fen, uci) == ChessMove(Chess(fen), uci).ok

\* fetch-lichess.ts:103-107: initialPly, initialPly - 1 and initialPly + 1,
\* those below 0 dropped
PlyCandidates(initialPly) ==
  <<initialPly>> \o (IF initialPly >= 1 THEN <<initialPly - 1>> ELSE <<>>)
    \o <<initialPly + 1>>

\* the for loop of fetch-lichess.ts:109-114
RECURSIVE FirstPos(_, _, _)
FirstPosBody(gamePgn, firstMove, cands, pos) ==
  IF pos # None /\ applyUciMove(pos[1].fen, firstMove) THEN pos
  ELSE FirstPos(gamePgn, firstMove, Tail(cands))

FirstPos(gamePgn, firstMove, cands) ==
  IF cands = <<>> THEN None
  ELSE FirstPosBody(gamePgn, firstMove, cands,
                    positionAfterPlies(gamePgn, Head(cands)))

\* a position taken after initialPly plies without trying the first move
puzzlePosAtInitialPly(raw) ==
  IF raw.solution = <<>> \/ raw.solution[1] = <<>> \/ ~isUciMove(raw.solution[1])
    THEN None
    ELSE positionAfterPlies(raw.pgn, raw.initialPly)

puzzlePosFromGameAndSolution(raw) ==
  IF raw.solution = <<>> \/ raw.solution[1] = <<>> \/ ~isUciMove(raw.solution[1])
    THEN None
    ELSE FirstPos(raw.pgn, raw.solution[1], PlyCandidates(raw.initialPly))

\* fetch-lichess.ts:139-158
PuzzleOf(raw, level, pos) ==
  IF pos = None THEN None
  ELSE Some([id |-> <<level, raw.id>>,
             level |-> level,
             fen |-> pos[1].fen,
             lastMoveUci |-> pos[1].lastMoveUci,
             solutionUci |-> JoinSp(Take(raw.solution, requiredPlies(level)))])

\* null is None
parsePuzzle(raw, level) ==
  IF Len(raw.solution) < requiredPlies(level) THEN None
  ELSE IF \E i \in DOMAIN raw.solution : ~isUciMove(raw.solution[i]) THEN None
  ELSE PuzzleOf(raw, level, puzzlePosFromGameAndSolution(raw))

(***************************************************************************)
(* SpecParse: parsePuzzle on puzzles of the puzzle service                  *)
(***************************************************************************)
\* game.pgn: two moves, the same with a move number and a result, one move,
\* a second move that is illegal, no move
Pgns ==
  { <<"e","4"," ","N","c","6">>,
    <<"1","."," ","e","4"," ","N","c","6"," ","*">>,
    <<"e","4">>,
    <<"e","4"," ","e","4">>,
    <<"U+FEFF","e","4","\f","N","c","6">>,
    <<>> }

\* puzzle.solution: lines that are legal after e4 Nc6, after e4, from the
\* initial array; a line with a move that is no UCI move; an upper-case move;
\* no move
Solutions ==
  { <<G1F3, C6B8, F1C4, E7E5, F3G1>>,
    <<F1C4, C6B8, G1F3>>,
    <<E7E5, G1F3, B8C6>>,
    <<G1F3>>,
    <<G1F3, <<"x","x">>, F1C4>>,
    <<<<"G","1","F","3">>>>,
    <<>> }

MaxInitialPly == 2

RawPuzzles(ids) ==
  [id : ids, pgn : Pgns, initialPly : 0..MaxInitialPly, solution : Solutions]

InitParse ==
  /\ pArgs \in [raw : RawPuzzles({"a"}), level : Levels]
  /\ pRet = None
  /\ fArgs = None
  /\ fCollected = <<>>
  /\ fSeen = {}
  /\ fRetries = 0
  /\ fPc = "idle"
  /\ fFile = None
  /\ IdleEval
  /\ IdleFn
  /\ IdleRun

\* fetch-lichess.ts:119-159, one call
CallParsePuzzle ==
  /\ pRet = None
  /\ pRet' = Some(parsePuzzle(pArgs.raw, pArgs.level))
  /\ UNCHANGED <<evalVars, fnVars, runVars, pArgs, fArgs, fCollected, fSeen,
                 fRetries, fPc, fFile>>

NextParse == CallParsePuzzle

SpecParse == InitParse /\ [][NextParse]_vars

(***************************************************************************)
(* SpecFetch: collectPuzzles (fetch-lichess.ts:187-238) and what main does  *)
(* with the puzzles it returns (fetch-lichess.ts:277-299)                   *)
(***************************************************************************)
maxRetries == 5

MaxCount == 2

MaxBatch == 2

\* the puzzles of the service.  parsePuzzle accepts "a" (the first move of
\* the solution is legal after initialPly plies), "b" (it is legal one ply
\* earlier), "c" (one ply later), "d" (the first move is followed by a
\* space) and "z" (the game breaks off before initialPly, and the move is
\* legal one ply earlier); it rejects "x" (no solution) and "y" (a first
\* move in upper case, which the rules engine does not take)
FetchRaws ==
  { [id |-> "a", pgn |-> <<"e","4"," ","N","c","6">>, initialPly |-> 2,
     solution |-> <<G1F3, C6B8, F1C4, E7E5, F3G1>>],
    [id |-> "b", pgn |-> <<"e","4"," ","N","c","6">>, initialPly |-> 1,
     solution |-> <<G1F3, C6B8, F1C4, E7E5, F3G1>>],
    [id |-> "c", pgn |-> <<"e","4">>, initialPly |-> 0,
     solution |-> <<E7E5, G1F3, B8C6>>],
    [id |-> "d", pgn |-> <<"1","."," ","e","4"," ","N","c","6"," ","*">>,
     initialPly |-> 2, solution |-> << G1F3 \o <<" ">> >>],
    [id |-> "z", pgn |-> <<"e","4"," ","e","4">>, initialPly |-> 2,
     solution |-> <<E7E5>>],
    [id |-> "x", pgn |-> <<"e","4"," ","N","c","6">>, initialPly |-> 2,
     solution |-> <<>>],
    [id |-> "y", pgn |-> <<"e","4"," ","N","c","6">>, initialPly |-> 2,
     solution |-> << <<"G","1","F","3">> >>] }

\* json.puzzles of a response of the service
Batches == UNION { [1..k -> FetchRaws] : k \in 0..MaxBatch }

\* fetch-lichess.ts:202-213, the for loop over a batch
RECURSIVE CollectBatch(_, _, _, _, _)
CollectBatch(batch, collected, seen, level, count) ==
  IF batch = <<>> THEN [collected |-> collected, seen |-> seen]
  ELSE IF Head(batch).id \in seen
    THEN CollectBatch(Tail(batch), collected, seen, level, count)
  ELSE IF parsePuzzle(Head(batch), level) = None
    THEN CollectBatch(Tail(batch), collected, seen \cup {Head(batch).id}, level, count)
  ELSE IF Len(collected) + 1 >= count
    THEN [collected |-> collected \o parsePuzzle(Head(batch), level),
          seen |-> seen \cup {Head(batch).id}]
  ELSE CollectBatch(Tail(batch), collected \o parsePuzzle(Head(batch), level),
                    seen \cup {Head(batch).id}, level, count)

\* fetch-lichess.ts:196 and 232-237: the while condition; when it is false
\* collectPuzzles returns
LoopHead(collected, retries, count) ==
  IF Len(collected) < count /\ retries < maxRetries THEN "fetch" ELSE "returned"

\* fetch-lichess.ts:249: p.solutionUci.split(" ")[0]
FirstOfSplit(line) ==
  IF \E i \in DOMAIN line : line[i] = " "
    THEN SubSeq(line, 1, (CHOOSE i \in DOMAIN line :
                            /\ line[i] = " "
                            /\ \A j \in 1..(i - 1) : line[j] # " ") - 1)
    ELSE line

\* fetch-lichess.ts:240-265: the number of puzzles whose first move is legal
ValidCount(puzzles) ==
  Cardinality({i \in DOMAIN puzzles :
                 /\ FirstOfSplit(puzzles[i].solutionUci) # <<>>
                 /\ applyUciMove(puzzles[i].fen, FirstOfSplit(puzzles[i].solutionUci))})

\* main calls collectPuzzles("mate1", PUZZLES_PER_LEVEL) and with no other
\* level (fetch-lichess.ts:277)
InitFetch ==
  /\ fArgs \in {Some(a) : a \in [level : {"mate1"}, count : 0..MaxCount]}
  /\ fCollected = <<>>
  /\ fSeen = {}
  /\ fRetries = 0
  /\ fPc = "start"
  /\ fFile = None
  /\ pArgs = None
  /\ pRet = None
  /\ IdleEval
  /\ IdleFn
  /\ IdleRun

\* fetch-lichess.ts:187-198: collectPuzzles up to its first fetch
CollectBegin ==
  /\ fPc = "start"
  /\ fPc' = LoopHead(fCollected, fRetries, fArgs[1].count)
  /\ UNCHANGED <<evalVars, fnVars, runVars, pArgs, pRet, fArgs, fCollected,
                 fSeen, fRetries, fFile>>

\* the loop of an iteration that ends without a sleep
AfterBatchNoSleep(c, count) == LoopHead(c.collected, fRetries, count)

\* fetch-lichess.ts:198-220: the fetch resolves with a batch, the puzzles
\* that are new and parse are collected, and collectPuzzles sleeps when it
\* has fewer than count
AfterBatch(c, count) ==
  /\ fCollected' = c.collected
  /\ fSeen' = c.seen
  /\ fPc' = IF Len(c.collected) < count THEN "sleep" ELSE AfterBatchNoSleep(c, count)

FetchReturns ==
  /\ fPc = "fetch"
  /\ \E batch \in Batches :
       AfterBatch(CollectBatch(batch, fCollected, fSeen, fArgs[1].level,
                               fArgs[1].count),
                  fArgs[1].count)
  /\ UNCHANGED <<evalVars, fnVars, runVars, pArgs, pRet, fArgs, fRetries, fFile>>

\* fetch-lichess.ts:174-176 and 221-225: the service answers 429, fetchBatch
\* throws RATE_LIMITED, and collectPuzzles sleeps before it counts the retry
FetchRateLimited ==
  /\ fPc = "fetch"
  /\ fPc' = "sleepRateLimit"
  /\ UNCHANGED <<evalVars, fnVars, runVars, pArgs, pRet, fArgs, fCollected,
                 fSeen, fRetries, fFile>>

\* fetch-lichess.ts:178-181 and 226-230: another failure of the fetch is
\* counted as a retry before the sleep
FetchFails ==
  /\ fPc = "fetch"
  /\ fRetries' = fRetries + 1
  /\ fPc' = "sleep"
  /\ UNCHANGED <<evalVars, fnVars, runVars, pArgs, pRet, fArgs, fCollected,
                 fSeen, fFile>>

\* fetch-lichess.ts:219 and 229: the sleep ends and the while condition is
\* evaluated
SleepDone ==
  /\ fPc = "sleep"
  /\ fPc' = LoopHead(fCollected, fRetries, fArgs[1].count)
  /\ UNCHANGED <<evalVars, fnVars, runVars, pArgs, pRet, fArgs, fCollected,
                 fSeen, fRetries, fFile>>

\* fetch-lichess.ts:224-225: the sleep after a 429 ends, the retry is counted
RateLimitSleepDone ==
  /\ fPc = "sleepRateLimit"
  /\ fRetries' = fRetries + 1
  /\ fPc' = LoopHead(fCollected, fRetries + 1, fArgs[1].count)
  /\ UNCHANGED <<evalVars, fnVars, runVars, pArgs, pRet, fArgs, fCollected,
                 fSeen, fFile>>

\* fetch-lichess.ts:277-299: main verifies collected.slice(0, count) and
\* writes the puzzle file, or exits when no puzzle is valid
FetchMainDone ==
  /\ fPc = "returned"
  /\ IF ValidCount(Take(fCollected, fArgs[1].count)) = 0
       THEN fPc' = "exited" /\ fFile' = fFile
       ELSE fPc' = "written" /\ fFile' = Some(Take(fCollected, fArgs[1].count))
  /\ UNCHANGED <<evalVars, fnVars, runVars, pArgs, pRet, fArgs, fCollected,
                 fSeen, fRetries>>

NextFetch ==
  \/ CollectBegin
  \/ FetchReturns
  \/ FetchRateLimited
  \/ FetchFails
  \/ SleepDone
  \/ RateLimitSleepDone
  \/ FetchMainDone

SpecFetch == InitFetch /\ [][NextFetch]_vars

\* the fetch settles
FetchSettles == FetchReturns \/ FetchRateLimited \/ FetchFails

\* SpecFetchLive: every fetch settles, every sleep ends, and main and
\* collectPuzzles go on when they can
SpecFetchLive ==
  /\ InitFetch
  /\ [][NextFetch]_vars
  /\ WF_vars(CollectBegin)
  /\ WF_vars(FetchSettles)
  /\ WF_vars(SleepDone)
  /\ WF_vars(RateLimitSleepDone)
  /\ WF_vars(FetchMainDone)

(***************************************************************************)
(* SpecRun: main (run.ts:364-472) with asyncPool (utils.ts:62-80)           *)
(***************************************************************************)
\* bench/models.json
RunModels ==
  << [id |-> "m-default", maxTokens |-> None],
     [id |-> "m-32", maxTokens |-> Some(32)] >>

RunModelIds == {RunModels[i].id : i \in DOMAIN RunModels}

\* the puzzles of the puzzle files, in order
RunPuzzles ==
  << [id |-> "p1", level |-> "mate1", fen |-> StartFen, solutionUci |-> G1F3],
     [id |-> "p4", level |-> "mate1", fen |-> AfterE4Fen, solutionUci |-> E7E5],
     [id |-> "p5", level |-> "mate2", fen |-> StartFen, solutionUci |-> E2E4] >>

NItems == Len(RunPuzzles)

MaxConcurrency == 4

\* BENCH_CONCURRENCY as a number: up to MaxConcurrency, not a number (as
\* for "abc"), or Infinity
Concurrencies ==
  {Finite(n) : n \in 0..MaxConcurrency} \cup {NotANumber, Infinite}

\* utils.ts:70: the length of Array.from({length: Math.max(1, concurrency)}),
\* which is 0 for NaN; for Infinity Array.from throws a RangeError
WorkerCount(conc) == IF conc.is = "number" THEN Max2(1, conc.n) ELSE 0

\* what the completion service answers in a run: a move and no token count,
\* or no move with the token count at the budget
RunResponses(budget) ==
  { Response(G1F3, None, 1),
    Response(<<"m","a","t","e">>, Some(budget), 1) }

\* a result of an earlier run, as the existing snapshot holds it
OldResult(pz) == ResultOf(pz, Response(E2E4, None, 1))

\* the existing snapshot's results of one model: for no puzzle, for the first
\* puzzle only, for all puzzles
ExistingOf(kind) ==
  [i \in 1..NItems |->
     IF kind = "all" \/ (kind = "some" /\ i = 1)
       THEN Some(OldResult(RunPuzzles[i])) ELSE None]

\* a model of the existing snapshot that models.json no longer has
RemovedModelId == "m-old"

SnapshotIds == RunModelIds \cup {RemovedModelId}

\* the existing snapshots: any results for the models of models.json, and
\* the removed model with no result or with a result for the first puzzle
Existings ==
  { [id \in SnapshotIds |-> IF id \in RunModelIds THEN cur[id] ELSE old] :
      cur \in [RunModelIds -> {ExistingOf(k) : k \in {"none", "some", "all"}}],
      old \in {ExistingOf("none"), ExistingOf("some")} }

\* the models an existing snapshot has a result of
WithResults(existing) ==
  {id \in SnapshotIds : \E i \in 1..NItems : existing[id][i] # None}

\* the model lists an existing snapshot can have (existingSnapshot.models):
\* a run lists every model of its models.json and of the snapshot before it
\* (run.ts:431-435), so that the list has the models with a result and any
\* others, which have none; without a snapshot there is no model
ModelLists(existing) ==
  {ids \in SUBSET SnapshotIds : WithResults(existing) \subseteq ids}

\* run.ts:431-435
allModelIds(oldModels) == RunModelIds \cup oldModels

\* every model of models.json is tested
ModelsToTestAll(stored) == RunModels

\* run.ts:406-410
ModelsToTest(stored) ==
  SelectSeq(RunModels, LAMBDA m : ~(\A i \in 1..NItems : stored[m.id][i] # None))

InitRun ==
  /\ rKey \in BOOLEAN
  /\ rConc \in Concurrencies
  /\ rExisting \in Existings
  /\ rOldModels \in ModelLists(rExisting)
  /\ rFile = rExisting
  /\ rFileModels = rOldModels
  /\ rStored = rExisting
  /\ rToTest = <<>>
  /\ rBatch = 0
  /\ rPool = [nextIndex |-> 1, results |-> [i \in 1..NItems |-> None]]
  /\ rWorkers = <<>>
  /\ rPhase = "start"
  /\ rFailed = {}
  /\ rTaken = [i \in 1..NItems |-> 0]
  /\ rCalls = [id \in RunModelIds |-> 0]
  /\ IdleEval
  /\ IdleFn
  /\ IdleFetch

\* a pool with one worker for each item
PoolWorkersPerItem(conc) ==
  [w \in 1..NItems |-> [st |-> "await1", idx |-> w]]

\* utils.ts:67-76 up to each worker's first await: worker w takes index w and,
\* when there is such an item, calls fn
PoolWorkers(conc) ==
  [w \in 1..WorkerCount(conc) |->
     [st |-> IF w <= NItems THEN "await1" ELSE "returned", idx |-> w]]

\* run.ts:421-424 for the b-th model of toTest, or run.ts:431-460 after the
\* loop; without an API key every evalOne that was called rejects (run.ts:
\* 225-230), asyncPool rejects and main ends in process.exit(1) (run.ts:
\* 474-477), as it does when Array.from throws in asyncPool (utils.ts:70);
\* a pool without a worker calls no evalOne and resolves
EnterBatch(toTest, b) ==
  IF b > Len(toTest)
    THEN /\ rPhase' = "writing"
         /\ rWorkers' = <<>>
         /\ rPool' = [nextIndex |-> 1, results |-> [i \in 1..NItems |-> None]]
         /\ rTaken' = [i \in 1..NItems |-> 0]
         /\ UNCHANGED <<rFailed, rCalls>>
    ELSE IF rConc.is = "Infinity"
      THEN /\ rPhase' = "exited"
           /\ rWorkers' = <<>>
           /\ rPool' = [nextIndex |-> 1, results |-> [i \in 1..NItems |-> None]]
           /\ rTaken' = [i \in 1..NItems |-> 0]
           /\ UNCHANGED <<rFailed, rCalls>>
    ELSE LET mdl == toTest[b]
             ws == PoolWorkers(rConc)
             started == {w \in DOMAIN ws : ws[w].st = "await1"}
         IN /\ rWorkers' = ws
            /\ rPool' = [nextIndex |-> Len(ws) + 1,
                         results |-> [i \in 1..NItems |-> None]]
            /\ rTaken' = [i \in 1..NItems |->
                            Cardinality({w \in started : ws[w].idx = i})]
            /\ IF rKey \/ started = {}
                 THEN /\ rPhase' = "pool"
                      /\ rCalls' = [rCalls EXCEPT ![mdl.id] = @ + Cardinality(started)]
                      /\ UNCHANGED rFailed
                 ELSE /\ rPhase' = "exited"
                      /\ rFailed' = rFailed \cup {<<mdl.id, ws[w].idx>> : w \in started}
                      /\ UNCHANGED rCalls

\* run.ts:364-424: main up to its first asyncPool
RunBegin ==
  /\ rPhase = "start"
  /\ rToTest' = ModelsToTest(rStored)
  /\ rBatch' = 1
  /\ EnterBatch(ModelsToTest(rStored), 1)
  /\ UNCHANGED <<rKey, rConc, rExisting, rOldModels,
                 rFileModels, rFile, rStored>>
  /\ UNCHANGED <<evalVars, fnVars, fetchVars>>

\* utils.ts:69-72 after fn resolved with res: the worker stores the result,
\* takes the next index and calls fn, or returns
WorkerContinue(w, res) ==
  LET nxt == rPool.nextIndex
  IN /\ rPool' = [nextIndex |-> nxt + 1,
                  results |-> [rPool.results EXCEPT ![rWorkers[w].idx] = Some(res)]]
     /\ IF nxt > NItems
          THEN /\ rWorkers' = [rWorkers EXCEPT ![w] = [st |-> "returned", idx |-> nxt]]
               /\ UNCHANGED <<rCalls, rTaken>>
          ELSE /\ rWorkers' = [rWorkers EXCEPT ![w] = [st |-> "await1", idx |-> nxt]]
               /\ rCalls' = [rCalls EXCEPT ![rToTest[rBatch].id] = @ + 1]
               /\ rTaken' = [rTaken EXCEPT ![nxt] = @ + 1]

\* run.ts:275-328 in worker w: the first response of its evalOne arrives
RunFirstResponse(w) ==
  /\ rPhase = "pool"
  /\ rWorkers[w].st = "await1"
  /\ \E rsp \in RunResponses(configuredMax(rToTest[rBatch])) :
       LET pz == RunPuzzles[rWorkers[w].idx]
       IN IF ShouldRetry(rToTest[rBatch], ParseOf(pz, rsp.content).parsed,
                         rsp.completionTokens)
            THEN /\ rWorkers' = [rWorkers EXCEPT ![w].st = "await2"]
                 /\ rCalls' = [rCalls EXCEPT ![rToTest[rBatch].id] = @ + 1]
                 /\ UNCHANGED <<rPool, rTaken>>
            ELSE WorkerContinue(w, ResultOf(pz, rsp))
  /\ UNCHANGED <<rKey, rConc, rExisting, rOldModels,
                 rFileModels, rFile, rStored, rToTest, rBatch,
                 rPhase, rFailed>>
  /\ UNCHANGED <<evalVars, fnVars, fetchVars>>

\* run.ts:295-328 in worker w: the retry's response arrives
RunRetryResponse(w) ==
  /\ rPhase = "pool"
  /\ rWorkers[w].st = "await2"
  /\ \E rsp \in RunResponses(retryMax(rToTest[rBatch])) :
       WorkerContinue(w, ResultOf(RunPuzzles[rWorkers[w].idx], rsp))
  /\ UNCHANGED <<rKey, rConc, rExisting, rOldModels,
                 rFileModels, rFile, rStored, rToTest, rBatch,
                 rPhase, rFailed>>
  /\ UNCHANGED <<evalVars, fnVars, fetchVars>>

\* a failure that is stored as an incorrect result
RunCallFailsMasked(w) ==
  /\ rPhase = "pool"
  /\ rWorkers[w].st \in {"await1", "await2"}
  /\ WorkerContinue(w, ResultOf(RunPuzzles[rWorkers[w].idx],
                                Response(<<"m","a","t","e">>, None, 0)))
  /\ rFailed' = rFailed \cup {<<rToTest[rBatch].id, rWorkers[w].idx>>}
  /\ UNCHANGED <<rKey, rConc, rExisting, rOldModels,
                 rFileModels, rFile, rStored, rToTest, rBatch, rPhase>>
  /\ UNCHANGED <<evalVars, fnVars, fetchVars>>

\* run.ts:258-261 in worker w: a call of its evalOne fails, evalOne rejects,
\* so do the worker, Promise.all and asyncPool (utils.ts:72, 78), and main
\* ends in process.exit(1) (run.ts:474-477)
RunCallFails(w) ==
  /\ rPhase = "pool"
  /\ rWorkers[w].st \in {"await1", "await2"}
  /\ rPhase' = "exited"
  /\ rFailed' = rFailed \cup {<<rToTest[rBatch].id, rWorkers[w].idx>>}
  /\ UNCHANGED <<rKey, rConc, rExisting, rOldModels,
                 rFileModels, rFile, rStored, rToTest, rBatch,
                 rPool, rWorkers, rTaken, rCalls>>
  /\ UNCHANGED <<evalVars, fnVars, fetchVars>>

\* a run that writes the snapshot after each model
RunBatchDoneSaving ==
  /\ rPhase = "pool"
  /\ \A w \in DOMAIN rWorkers : rWorkers[w].st = "returned"
  /\ rStored' = [rStored EXCEPT ![rToTest[rBatch].id] = rPool.results]
  /\ rFile' = rStored'
  /\ rFileModels' = allModelIds(rOldModels)
  /\ rBatch' = rBatch + 1
  /\ EnterBatch(rToTest, rBatch + 1)
  /\ UNCHANGED <<rKey, rConc, rExisting, rOldModels, rToTest>>
  /\ UNCHANGED <<evalVars, fnVars, fetchVars>>

\* utils.ts:78-79 and run.ts:424-428: every worker returned, asyncPool
\* resolves, main stores the results and goes on with the next model
RunBatchDone ==
  /\ rPhase = "pool"
  /\ \A w \in DOMAIN rWorkers : rWorkers[w].st = "returned"
  /\ rStored' = [rStored EXCEPT ![rToTest[rBatch].id] = rPool.results]
  /\ rBatch' = rBatch + 1
  /\ EnterBatch(rToTest, rBatch + 1)
  /\ UNCHANGED <<rKey, rConc, rExisting, rOldModels,
                 rFileModels, rFile, rToTest>>
  /\ UNCHANGED <<evalVars, fnVars, fetchVars>>

\* a snapshot of the models of models.json only
RunWriteCurrentOnly ==
  /\ rPhase = "writing"
  /\ rFile' = [id \in SnapshotIds |->
                IF id \in RunModelIds THEN rStored[id] ELSE ExistingOf("none")]
  /\ rFileModels' = RunModelIds
  /\ rPhase' = "written"
  /\ UNCHANGED <<rKey, rConc, rExisting, rOldModels, rStored, rToTest, rBatch,
                 rPool, rWorkers, rFailed, rTaken, rCalls>>
  /\ UNCHANGED <<evalVars, fnVars, fetchVars>>

\* run.ts:430-470: the snapshot is written, with the puzzles' results and
\* the models of models.json and of the existing snapshot
RunWrite ==
  /\ rPhase = "writing"
  /\ rFile' = rStored
  /\ rFileModels' = allModelIds(rOldModels)
  /\ rPhase' = "written"
  /\ UNCHANGED <<rKey, rConc, rExisting, rOldModels, rStored, rToTest, rBatch,
                 rPool, rWorkers, rFailed, rTaken, rCalls>>
  /\ UNCHANGED <<evalVars, fnVars, fetchVars>>

NextRun ==
  \/ RunBegin
  \/ \E w \in DOMAIN rWorkers : RunFirstResponse(w)
  \/ \E w \in DOMAIN rWorkers : RunRetryResponse(w)
  \/ \E w \in DOMAIN rWorkers : RunCallFails(w)
  \/ RunBatchDone
  \/ RunWrite

SpecRun == InitRun /\ [][NextRun]_vars

\* the response of worker w's call in flight arrives
WorkerResponse(w) ==
  /\ w \in DOMAIN rWorkers
  /\ (RunFirstResponse(w) \/ RunRetryResponse(w))

\* SpecRunLive: a run in which every call in flight is answered unless it
\* fails, and in which main and the workers go on when what they await is
\* settled
SpecRunLive ==
  /\ InitRun
  /\ [][NextRun]_vars
  /\ WF_vars(RunBegin)
  /\ \A w \in 1..MaxConcurrency : WF_vars(WorkerResponse(w))
  /\ WF_vars(RunBatchDone)
  /\ WF_vars(RunWrite)

(***************************************************************************)
(* Properties of evalOne (Spec)                                             *)
(***************************************************************************)
\* the moves of a line: its pieces between white space
Tokens(line) == SplitOn(line, WhiteSpace, <<>>, <<>>)

PlyCount(line) == Len(Tokens(line))

LowerTokens(line) == [i \in DOMAIN Tokens(line) |-> toLowerCase(Tokens(line)[i])]

\* [a-h][1-8][a-h][1-8][qrbn]? in either case, character by character
UciShape(t) ==
  /\ Len(t) \in {4, 5}
  /\ t[1] \in AnyCase(Files) /\ t[2] \in Ranks
  /\ t[3] \in AnyCase(Files) /\ t[4] \in Ranks
  /\ Len(t) = 5 => t[5] \in AnyCase(PromoLower)

\* C1: in every result evalOne returns, isCorrect is true exactly when the
\* move line is not empty, validateUciLineLegal applied all required plies
\* from the puzzle's FEN, and the line has the solution's tokens up to case;
\* isCorrect is never true while isLegal is false or undefined.
C1_CorrectIffLegalAndEqual ==
  result # None =>
    LET r == result[1]
        need == requiredPlies(puzzle.level)
        v == validateUciLineLegal(puzzle.fen, r.move, need)
    IN /\ r.isCorrect <=> /\ r.move # <<>>
                          /\ v.isLegal
                          /\ v.appliedPlies = need
                          /\ LowerTokens(r.move) = LowerTokens(puzzle.solutionUci)
       /\ r.isCorrect => r.isLegal = Some(TRUE)

\* a correct result returned after a retry
C1_Witness ==
  /\ result # None
  /\ invoked = 2
  /\ result[1].isCorrect

\* C2: callOpenRouter is invoked at most twice, and the step that follows the
\* retry's response is the return of a result, whatever the retry's text.
C2_AtMostOneRetry ==
  /\ [](invoked <= 2 /\ Len(calls) <= 2)
  /\ [][(pc = "await2" /\ pc' # "rejected")
          => (pc' = "done" /\ result' # None /\ invoked' = invoked)]_vars

\* a result returned after a retry whose text has no move either, although
\* the retry hit its limit too
C2_Witness ==
  /\ pc = "done"
  /\ invoked = 2
  /\ result # None
  /\ result[1].move = <<>>
  /\ result[1].parseMethod = "none"
  /\ result[1].completionTokens = Some(retryMax(model))

\* C3: once the first response is parsed, the retry call is made if and only
\* if the parsed line is empty and completionTokens is a number that is at
\* least the configured budget (model.maxTokens, default 128).
C3_RetryIffEmptyAndHitLimit ==
  first # None =>
    LET budget == IF model.maxTokens = None THEN DefaultMaxTokens ELSE model.maxTokens[1]
    IN (invoked = 2) <=> /\ first[1].parsed = <<>>
                         /\ first[1].completionTokens # None
                         /\ first[1].completionTokens[1] >= budget

\* no retry for a line shorter than required, although the limit was hit
C3_Witness ==
  /\ pc = "done"
  /\ invoked = 1
  /\ first # None
  /\ first[1].parsed # <<>>
  /\ PlyCount(first[1].parsed) < requiredPlies(puzzle.level)
  /\ first[1].completionTokens # None
  /\ first[1].completionTokens[1] >= configuredMax(model)

\* C4: whenever evalOne retries, the retry's max_tokens is larger than the
\* first call's, and at least 4 times it unless the ceiling clamps it.
C4_RetryBudgetLarger ==
  Len(calls) = 2 =>
    /\ calls[2] > calls[1]
    /\ (calls[2] >= 4 * calls[1] \/ calls[2] = RetryCeiling)

\* C5: no result has parseMethod "uci" with a move line shorter than
\* requiredPlies(level): with fewer UCI tokens the UCI method gives nothing.
C5_NoPartialUciLine ==
  (result # None /\ result[1].parseMethod = "uci")
    => PlyCount(result[1].move) = requiredPlies(puzzle.level)

\* C9: a returned move line that has fewer plies than requiredPlies(level) is
\* reported with isLegal false and isCorrect false, whichever method gave it
\* and whether or not its moves are legal.
C9_ShortLineIllegalIncorrect ==
  (result # None /\ result[1].move # <<>>
     /\ PlyCount(result[1].move) < requiredPlies(puzzle.level))
    => (result[1].isLegal = Some(FALSE) /\ result[1].isCorrect = FALSE)

\* a short line from the SAN fallback whose moves are legal as far as they
\* go, and which is the solution line of the puzzle
C9_Witness ==
  /\ result # None
  /\ result[1].parseMethod = "san"
  /\ result[1].move # <<>>
  /\ PlyCount(result[1].move) < requiredPlies(puzzle.level)
  /\ ValidateRun(puzzle.fen, result[1].move, PlyCount(result[1].move)).isLegal
  /\ LowerTokens(result[1].move) = LowerTokens(puzzle.solutionUci)

(***************************************************************************)
(* Properties of tryParseSanToUciLine (SpecSan)                             *)
(***************************************************************************)
\* C6: tryParseSanToUciLine returns the empty line or a line of need moves,
\* never a line with fewer than need moves.
C6_SanLineEmptyOrFull ==
  sRet # None => (sRet[1] = <<>> \/ PlyCount(sRet[1]) = sArgs.need)

(***************************************************************************)
(* Properties of validateUciLineLegal (SpecValidate)                        *)
(***************************************************************************)
\* C7 as stated: the call returns {isLegal: false, appliedPlies: 0} without
\* replaying a move whenever the normalised line is empty, its token count
\* differs from needPlies, or any token fails the shape check.
C7_RejectsAnyOtherCount ==
  vRet # None =>
    LET toks == Tokens(vArgs.uciLine)
    IN (\/ toks = <<>>
        \/ Len(toks) # vArgs.needPlies
        \/ \E i \in DOMAIN toks : ~UciShape(toks[i]))
       => vRet[1] = [isLegal |-> FALSE, appliedPlies |-> 0, tried |-> 0]

\* C7: the call returns {isLegal: false, appliedPlies: 0} without replaying a
\* move whenever the normalised line is empty, has fewer than needPlies
\* tokens, or one of its first needPlies tokens fails the shape check; the
\* tokens after the first needPlies are ignored.
C7_RejectsShortOrMalformed ==
  vRet # None =>
    LET toks == Tokens(vArgs.uciLine)
        need == vArgs.needPlies
    IN /\ (\/ toks = <<>>
            \/ Len(toks) < need
            \/ \E i \in 1..need : ~UciShape(toks[i]))
           => vRet[1] = [isLegal |-> FALSE, appliedPlies |-> 0, tried |-> 0]
       /\ Len(toks) > need
           => vRet[1] = ValidateRun(vArgs.fen, JoinSp(Take(toks, need)), need)

\* a line of needPlies tokens that starts with a legal move and is rejected
\* for the shape of a later token, no move replayed
C7_Witness ==
  /\ vRet # None
  /\ Len(Tokens(vArgs.uciLine)) = vArgs.needPlies
  /\ LegalMove(Chess(vArgs.fen), Tokens(vArgs.uciLine)[1])
  /\ \E i \in DOMAIN Tokens(vArgs.uciLine) : ~UciShape(Tokens(vArgs.uciLine)[i])
  /\ vRet[1] = [isLegal |-> FALSE, appliedPlies |-> 0, tried |-> 0]

\* C8: on a well-formed line of needPlies tokens the moves are replayed in
\* order from the position of the FEN up to the first one the rules engine
\* rejects; appliedPlies is the number of moves applied before it, and
\* isLegal is true exactly when appliedPlies is needPlies.
C8_ReplayStopsAtFirstIllegal ==
  vRet # None =>
    LET toks == Tokens(vArgs.uciLine)
        need == vArgs.needPlies
        mv(i) == SubSeq(toks[i], 1, 4)
        pos(k) == Chess(vArgs.fen) \o [i \in 1..k |-> mv(i)]
        okAt(i) == LegalMove(pos(i - 1), mv(i))
        k == CHOOSE n \in 0..need :
               (\A i \in 1..n : okAt(i)) /\ (n < need => ~okAt(n + 1))
    IN (Len(toks) = need /\ \A i \in 1..need : UciShape(toks[i]))
       => /\ vRet[1].appliedPlies = k
          /\ vRet[1].isLegal = (k = need)
          /\ vRet[1].isLegal = (vRet[1].appliedPlies = need)
          /\ vRet[1].tried = IF k = need THEN need ELSE k + 1

\* a well-formed line rejected at its second move, whose third move would
\* have been legal at that point
C8_Witness ==
  /\ vRet # None
  /\ vArgs.needPlies = 3
  /\ Len(Tokens(vArgs.uciLine)) = 3
  /\ \A i \in 1..3 : UciShape(Tokens(vArgs.uciLine)[i])
  /\ vRet[1] = [isLegal |-> FALSE, appliedPlies |-> 1, tried |-> 2]
  /\ LegalMove(Chess(vArgs.fen) \o <<Tokens(vArgs.uciLine)[1]>>, Tokens(vArgs.uciLine)[3])

(***************************************************************************)
(* Properties of a run (SpecRun)                                            *)
(***************************************************************************)
\* C10: a transport failure of a completion call (missing API key, a
\* response that is not ok, at the first call or at the retry) makes evalOne
\* reject: asyncPool holds no result of that unit, and no result of it is
\* stored, in memory or in the snapshot file; what the existing snapshot had
\* for the unit stays as it was.
C10_FailureStoresNoResult ==
  \A u \in rFailed :
    /\ rPhase = "exited"
    /\ rPool.results[u[2]] = None
    /\ rStored[u[1]][u[2]] = rExisting[u[1]][u[2]]
    /\ rFile[u[1]][u[2]] = rExisting[u[1]][u[2]]

\* a retry failed in the batch of the second model, for a unit with no
\* earlier result, after another unit of the batch had returned its result
C10_Witness ==
  /\ rBatch = 2
  /\ \E u \in rFailed :
       /\ rExisting[u[1]][u[2]] = None
       /\ rStored[u[1]][u[2]] = None
       /\ \E w \in DOMAIN rWorkers : rWorkers[w].idx = u[2] /\ rWorkers[w].st = "await2"
  /\ \E i \in 1..NItems : rPool.results[i] # None

(***************************************************************************)
(* Further properties of evalOne (Spec)                                     *)
(***************************************************************************)
\* the extractors over the response texts, evaluated once
UciTokensOf == Tabulate([c \in Contents |-> extractUciTokens(c)])

SanCandidatesOf == Tabulate([c \in Contents |-> extractSanCandidates(c)])

\* C11: when neither extractUciTokens nor the SAN fallback finds a move in
\* the text of the last response, evalOne returns a result (it does not
\* reject) with move "", isCorrect false, parseMethod "none" and isLegal
\* undefined.
C11_NoMoveResult ==
  (pc = "done"
     /\ UciTokensOf[response.content] = <<>>
     /\ SanToksToUciLine(puzzle.fen, requiredPlies(puzzle.level),
                          SanCandidatesOf[response.content]) = <<>>)
    => /\ result # None
       /\ result[1].move = <<>>
       /\ result[1].isCorrect = FALSE
       /\ result[1].parseMethod = "none"
       /\ result[1].isLegal = None
       /\ result[1].rawOutput = response.content

\* a first response with SAN text that names no legal move, returned without
\* a retry
C11_Witness ==
  /\ pc = "done"
  /\ invoked = 1
  /\ result # None
  /\ UciTokensOf[response.content] = <<>>
  /\ SanCandidatesOf[response.content] # <<>>
  /\ result[1].move = <<>>
  /\ result[1].parseMethod = "none"
  /\ result[1].isLegal = None

\* C12: when the text of the response is exactly the solution line of the
\* puzzle, and that line is legal from the puzzle's FEN and has
\* requiredPlies(level) moves, the result has the solution line as its move,
\* isLegal true, isCorrect true and parseMethod "uci", also when a move
\* occurs in the line more than once.
C12_SolutionTextIsCorrect ==
  (result # None
     /\ response.content = puzzle.solutionUci
     /\ PlyCount(puzzle.solutionUci) = requiredPlies(puzzle.level)
     /\ ValidateRun(puzzle.fen, puzzle.solutionUci,
                    PlyCount(puzzle.solutionUci)).isLegal)
    => /\ result[1].move = puzzle.solutionUci
       /\ result[1].isLegal = Some(TRUE)
       /\ result[1].isCorrect
       /\ result[1].parseMethod = "uci"

(***************************************************************************)
(* Properties of asyncPool in a run (SpecRun)                               *)
(***************************************************************************)
\* the workers of asyncPool that wait for a call of fn
InFlight == {w \in DOMAIN rWorkers : rWorkers[w].st \in {"await1", "await2"}}

\* C13: asyncPool never has more than max(1, concurrency) calls of fn in
\* flight at the same time.
C13_InFlightAtMostConcurrency ==
  /\ rConc.is = "number" =>
       Cardinality(InFlight) <= (IF rConc.n > 1 THEN rConc.n ELSE 1)
  /\ rConc.is # "number" => InFlight = {}

\* the pool is full (two calls in flight with concurrency 2) after a worker
\* has stored a result and taken the last item
C13_Witness ==
  /\ rPhase = "pool"
  /\ rConc = Finite(2)
  /\ Cardinality(InFlight) = rConc.n
  /\ rPool.nextIndex > NItems
  /\ \E i \in 1..NItems : rPool.results[i] # None

\* the results evalOne can return for the i-th puzzle
ResultsOfItem(i) ==
  {ResultOf(RunPuzzles[i], Response(c, t, 1)) :
     c \in {G1F3, <<"m","a","t","e">>},
     t \in {None} \cup {Some(retryMax(RunModels[m])) : m \in DOMAIN RunModels}}

\* C14: in every interleaving asyncPool calls fn exactly once for each item
\* index (the indices below nextIndex, each taken by one worker; all of them
\* once every worker has returned), and results[i] is the result of
\* fn(items[i]): the evaluation of the i-th puzzle.
C14_EachItemOnceInPlace ==
  rPhase \in {"pool", "writing", "written"} =>
    /\ \A i \in 1..NItems :
         /\ rTaken[i] = (IF rPhase = "pool" /\ i < rPool.nextIndex THEN 1 ELSE 0)
         /\ Cardinality({w \in InFlight : rWorkers[w].idx = i})
              + (IF rPool.results[i] # None THEN 1 ELSE 0) = rTaken[i]
         /\ rPool.results[i] # None => rPool.results[i][1] \in ResultsOfItem(i)
    /\ (rPhase = "pool" /\ InFlight = {}) =>
         \A i \in 1..NItems : rTaken[i] = 1 /\ rPool.results[i] # None
    /\ \A b \in 1..(rBatch - 1), i \in 1..NItems :
         /\ rStored[rToTest[b].id][i] # None
         /\ rStored[rToTest[b].id][i][1] \in ResultsOfItem(i)

\* C15: p.results[model.id] is assigned only once every evaluation of the
\* model's batch has completed: a step that changes the stored results is
\* taken with no call in flight and every index taken, and while a batch is
\* running the stored results of its model are those of the existing
\* snapshot.
C15_StoredAfterBatch ==
  /\ [][rStored' # rStored =>
          /\ rPhase = "pool"
          /\ InFlight = {}
          /\ \A w \in DOMAIN rWorkers : rWorkers[w].st = "returned"
          /\ \A i \in 1..NItems : rPool.results[i] # None
          /\ rStored' = [rStored EXCEPT ![rToTest[rBatch].id] = rPool.results]]_vars
  /\ [](rPhase = "pool" =>
          rStored[rToTest[rBatch].id] = rExisting[rToTest[rBatch].id])

(***************************************************************************)
(* The order of the steps of evalOne (Spec)                                 *)
(***************************************************************************)
\* the steps of an evaluation without and with a retry; "validate" is the
\* legality step of run.ts:312-315
StepsPlain == <<"prompt", "call", "response", "parse", "validate", "return">>

StepsRetry == <<"prompt", "call", "response", "parse",
                "call", "response", "parse", "validate", "return">>

IsPrefix(a, b) == Len(a) <= Len(b) /\ a = SubSeq(b, 1, Len(a))

CountOf(a, x) == Cardinality({i \in DOMAIN a : a[i] = x})

\* C16: the steps of an evaluation occur in the order prompt, first response,
\* parse, optional retry response and re-parse, validate: the retry call is
\* issued only after the first response was parsed, validation runs once and
\* only after the last completion call has returned, and the result is
\* produced only after validation.
C16_StepsInOrder ==
  /\ IsPrefix(steps, StepsPlain) \/ IsPrefix(steps, StepsRetry)
  /\ CountOf(steps, "call") = invoked
  /\ invoked = 2 => (first # None /\ first[1].parsed = <<>>)
  /\ pc \in {"await1", "await2"} =>
       (steps[Len(steps)] = "call" /\ CountOf(steps, "validate") = 0 /\ result = None)
  /\ result # None <=> (pc = "done" /\ steps \in {StepsPlain, StepsRetry})
  /\ result # None =>
       /\ CountOf(steps, "validate") = 1
       /\ CountOf(steps, "response") = invoked
       /\ result[1].rawOutput = response.content
       /\ result[1].move = parse.parsed
       /\ parse = ParseOf(puzzle, response.content)
       /\ result[1].isLegal =
            (IF parse.parsed = <<>> THEN None
             ELSE Some(validateUciLineLegal(puzzle.fen, parse.parsed,
                                            requiredPlies(puzzle.level)).isLegal))

\* an evaluation with a retry whose line is validated as legal
C16_Witness ==
  /\ pc = "done"
  /\ steps = StepsRetry
  /\ result # None
  /\ result[1].isLegal = Some(TRUE)
  /\ first[1].parsed = <<>>

(***************************************************************************)
(* The ply count of an evaluation (Spec)                                    *)
(***************************************************************************)
\* N of "mate in N"
MateIn(level) == CASE level = "mate1" -> 1 [] level = "mate2" -> 2 [] level = "mate3" -> 3

\* C17: requiredPlies maps mate1 to 1, mate2 to 3 and mate3 to 5 (2N-1 for
\* mate in N), and the line of a result is resolved and validated with
\* requiredPlies(puzzle.level) plies, whatever the length of the puzzle's
\* solution line.
C17_PliesFromLevel ==
  /\ requiredPlies("mate1") = 1
  /\ requiredPlies("mate2") = 3
  /\ requiredPlies("mate3") = 5
  /\ \A l \in Levels : requiredPlies(l) = 2 * MateIn(l) - 1
  /\ result # None =>
       LET need == 2 * MateIn(puzzle.level) - 1
           uci == JoinSp(Take(UciTokensOf[response.content], need))
           san == SanToksToUciLine(puzzle.fen, need,
                                   SanCandidatesOf[response.content])
           line == IF uci # <<>> THEN uci ELSE san
       IN /\ result[1].move = line
          /\ PlyCount(result[1].move) <= need
          /\ result[1].isLegal =
               (IF line = <<>> THEN None
                ELSE Some(ValidateRun(puzzle.fen, line, need).isLegal))
          /\ result[1].isLegal = Some(TRUE) => PlyCount(result[1].move) = need

\* a puzzle of level mate2 whose solution line has one ply: the line of the
\* result has three plies and is legal
C17_Witness ==
  /\ result # None
  /\ PlyCount(puzzle.solutionUci) = 1
  /\ puzzle.level = "mate2"
  /\ PlyCount(result[1].move) = 3
  /\ result[1].isLegal = Some(TRUE)
  /\ result[1].isCorrect = FALSE

(***************************************************************************)
(* Properties of the extractors (SpecExtract)                               *)
(***************************************************************************)
\* every match of the pattern in the text, in order, as the token it gives
RECURSIVE UciMatchesFrom(_, _)
UciMatchesFrom(s, from) ==
  LET m == ReExec(UciRe, s, from)
  IN IF m[1] = 0 THEN <<>>
     ELSE <<UciTokOf(s, m)>> \o UciMatchesFrom(s, m[2])

RECURSIVE SanMatchesFrom(_, _)
SanMatchesFrom(s, from) ==
  LET m == ReExec(SanRe, s, from)
  IN IF m[1] = 0 THEN <<>>
     ELSE <<SubSeq(s, m[1], m[2] - 1)>> \o SanMatchesFrom(s, m[2])

\* the index of the first occurrence of t in all
FirstIndex(all, t) ==
  CHOOSE i \in DOMAIN all : all[i] = t /\ \A j \in 1..(i - 1) : all[j] # t

\* out has each token of all once, in the order of the first occurrences
DistinctInOrder(out, all) ==
  /\ \A i, j \in DOMAIN out : i # j => out[i] # out[j]
  /\ Range(out) = Range(all)
  /\ \A i, j \in DOMAIN out : i < j => FirstIndex(all, out[i]) < FirstIndex(all, out[j])

\* C18: the lists extractUciTokens and extractSanCandidates return have no
\* duplicates, and their tokens are in the order of their first occurrence
\* in the text.
C18_TokensDistinctInOrder ==
  /\ xRet.uci # None => DistinctInOrder(xRet.uci[1], UciMatchesFrom(xArgs.text, 1))
  /\ xRet.san # None => DistinctInOrder(xRet.san[1], SanMatchesFrom(xArgs.text, 1))

\* a text in which a move occurs again after other moves, in both extractors
C18_Witness ==
  /\ xRet.uci # None
  /\ xRet.san # None
  /\ Len(xRet.uci[1]) >= 4
  /\ Len(UciMatchesFrom(xArgs.text, 1)) > Len(xRet.uci[1])
  /\ Len(xRet.san[1]) >= 4
  /\ Len(SanMatchesFrom(xArgs.text, 1)) > Len(xRet.san[1])

\* C19: extractUciTokens takes the two squares written with "-", ":" or no
\* separator and a promotion written "=X" or as a trailing "X", and every
\* token it returns is the lower-case UCI form of 4 or 5 characters that
\* isUciMove accepts ("e2-e4" gives "e2e4", "a7a8=Q" gives "a7a8q").
C19_UciTokensCanonical ==
  /\ xRet.uci # None =>
       \A i \in DOMAIN xRet.uci[1] :
         LET t == xRet.uci[1][i]
         IN /\ isUciMove(t)
            /\ Len(t) \in {4, 5}
            /\ t[1] \in Files /\ t[2] \in Ranks /\ t[3] \in Files /\ t[4] \in Ranks
            /\ Len(t) = 5 => t[5] \in PromoLower
  /\ extractUciTokens(<<"e","2","-","e","4">>) = <<E2E4>>
  /\ extractUciTokens(<<"e","2",":","e","4">>) = <<E2E4>>
  /\ extractUciTokens(<<"e","2","e","4">>) = <<E2E4>>
  /\ extractUciTokens(<<"a","7","a","8","=","Q">>) = <<A7A8Q>>
  /\ extractUciTokens(<<"a","7","a","8","Q">>) = <<A7A8Q>>
  /\ extractUciTokens(<<"A","7","-","A","8","q">>) = <<A7A8Q>>

\* a text with a move written with "-" and a promotion written "=Q"
C19_Witness ==
  /\ xRet.uci # None
  /\ xArgs.text = <<"e","2","-","e","4"," ","a","7","a","8","=","Q">>
  /\ xRet.uci[1] = <<E2E4, A7A8Q>>

(***************************************************************************)
(* Properties of scoreMove (SpecScore)                                      *)
(***************************************************************************)
UpperChar(c) ==
  IF c \in Range(LowerLetters)
    THEN UpperLetters[CHOOSE i \in DOMAIN LowerLetters : LowerLetters[i] = c]
    ELSE c

\* the line in upper case, each white space character written twice, with
\* white space before and after it
Disguised(line) ==
  LET RECURSIVE wide(_)
      wide(t) == IF t = <<>> THEN <<>>
                 ELSE (IF Head(t) \in WhiteSpace THEN <<Head(t), Head(t)>>
                       ELSE <<UpperChar(Head(t))>>) \o wide(Tail(t))
  IN <<"\t", " ">> \o wide(line) \o <<" ", "\n">>

\* C20: scoreMove(expected, got) is true exactly when the two lines have the
\* same tokens up to letter case; it gives the same for the arguments in the
\* other order, and for an argument in upper case with more white space
\* before, between and after its tokens.
C20_ScoreIgnoresCaseAndSpace ==
  cRet # None =>
    LET e == cArgs.expectedLine
        g == cArgs.gotLine
    IN /\ cRet[1] <=> (LowerTokens(e) = LowerTokens(g))
       /\ cRet[1] = scoreMove(g, e)
       /\ cRet[1] = scoreMove(Disguised(e), g)
       /\ cRet[1] = scoreMove(e, Disguised(g))

\* two lines of two tokens found equal although they differ in case and in
\* white space
C20_Witness ==
  /\ cRet = Some(TRUE)
  /\ PlyCount(cArgs.expectedLine) = 2
  /\ normalizeUciLine(cArgs.expectedLine) # normalizeUciLine(cArgs.gotLine)
  /\ toLowerCase(cArgs.expectedLine) # toLowerCase(cArgs.gotLine)
  /\ Len(cArgs.expectedLine) # Len(cArgs.gotLine)

(***************************************************************************)
(* Properties of the puzzles of the fetcher (SpecFetch)                     *)
(***************************************************************************)
\* the puzzles parsePuzzle has returned to collectPuzzles, and those main
\* has written to the puzzle file
FetchedPuzzles ==
  Range(fCollected) \cup (IF fFile = None THEN {} ELSE Range(fFile[1]))

\* C21: for every puzzle that parsePuzzle returns in the fetcher and that
\* the fetcher writes, the solution line has requiredPlies(level) moves of
\* UCI shape, the whole line applies to the puzzle's FEN
\* (validateUciLineLegal reports isLegal true), and the line scored against
\* itself is correct.  The level is the one main collects.
C21_WrittenSolutionLegal ==
  \A q \in FetchedPuzzles :
    /\ q.level = fArgs[1].level
    /\ PlyCount(q.solutionUci) = requiredPlies(q.level)
    /\ \A i \in 1..PlyCount(q.solutionUci) : isUciMove(Tokens(q.solutionUci)[i])
    /\ validateUciLineLegal(q.fen, q.solutionUci, requiredPlies(q.level)).isLegal
    /\ IsCorrect(q, q.solutionUci)

\* main has written two puzzles, one of them with the position one ply
\* before initialPly and a solution cut to the plies of its level
C21_Witness ==
  /\ fPc = "written"
  /\ fFile # None
  /\ Len(fFile[1]) = 2
  /\ \E i \in DOMAIN fFile[1] :
       /\ fFile[1][i].id = <<"mate1", "b">>
       /\ fFile[1][i].fen = StartFen
       /\ fFile[1][i].solutionUci = G1F3

(***************************************************************************)
(* Properties of the snapshot in a run (SpecRun)                            *)
(***************************************************************************)
\* the models of models.json with a result for every puzzle in the existing
\* snapshot
Complete == {id \in RunModelIds : \A i \in 1..NItems : rExisting[id][i] # None}

\* C22: a model of models.json that has a stored result for every current
\* puzzle is skipped: no evaluation of it is started and no completion call
\* is made for it; the models evaluated are those lacking a result.
C22_CompleteModelsSkipped ==
  /\ \A id \in Complete :
       /\ rCalls[id] = 0
       /\ \A i \in 1..NItems : <<id, i>> \notin rFailed
       /\ rStored[id] = rExisting[id]
       /\ \A b \in DOMAIN rToTest : rToTest[b].id # id
  /\ rPhase # "start" =>
       {rToTest[b].id : b \in DOMAIN rToTest} = RunModelIds \ Complete

\* a run that has written the snapshot after it evaluated one model and
\* skipped the other
C22_Witness ==
  /\ rPhase = "written"
  /\ Cardinality(Complete) = 1
  /\ Len(rToTest) = 1
  /\ rCalls[rToTest[1].id] > NItems
  /\ \A id \in Complete : rCalls[id] = 0 /\ rFile[id] = rExisting[id]

\* the models evaluated in the run
Evaluated == {rToTest[b].id : b \in DOMAIN rToTest}

\* C23: in the written snapshot, every stored result of a model that the run
\* did not evaluate is the existing snapshot's, and a model of the existing
\* snapshot that models.json no longer has is still in the model list.
C23_UntestedKeptInSnapshot ==
  rPhase = "written" =>
    /\ \A id \in SnapshotIds \ Evaluated : rFile[id] = rExisting[id]
    /\ rOldModels \subseteq rFileModels
    /\ RunModelIds \subseteq rFileModels

\* a written snapshot of a run that evaluated a model, with the results of a
\* removed model and of a skipped one
C23_Witness ==
  /\ rPhase = "written"
  /\ Evaluated # {}
  /\ RemovedModelId \in rOldModels
  /\ RemovedModelId \in rFileModels
  /\ rFile[RemovedModelId][1] # None
  /\ \E id \in RunModelIds \ Evaluated : rFile[id][NItems] # None

(***************************************************************************)
(* Properties of the SAN replay (SpecSan)                                   *)
(***************************************************************************)
\* the moves accepted among the first k tokens, when each token is tried in
\* the position after the moves accepted before it and none is tried once
\* need moves are there
AcceptedUpTo(toks, h0, need) ==
  LET acc[k \in 0..Len(toks)] ==
        IF k = 0 THEN <<>>
        ELSE IF Len(acc[k - 1]) >= need THEN acc[k - 1]
        ELSE acc[k - 1] \o SanMove(h0 \o acc[k - 1], toks[k])
  IN acc

\* the number of tokens that are tried
TriedOf(acc, need) ==
  Cardinality({k \in DOMAIN acc : k > 0 /\ Len(acc[k - 1]) < need})

SanReplayAsClaimed(toks, h0, need, acc, rep, line) ==
  /\ rep.uci = acc[Len(toks)]
  /\ rep.pos = h0 \o rep.uci
  /\ Len(rep.uci) <= need
  /\ Len(rep.left) = Len(toks) - TriedOf(acc, need)
  /\ \A k \in 1..Len(toks) :
       acc[k] # acc[k - 1] => LegalMove(h0 \o acc[k - 1], acc[k][Len(acc[k])])
  /\ line = JoinSp(rep.uci)

\* C24: tryParseSanToUciLine tries the SAN tokens in order on one position
\* that starts at the puzzle's FEN: a rejected token leaves the position and
\* the line as they are and the next token is tried, an accepted token
\* advances the position and appends its UCI form, and no token is tried
\* once need moves are accumulated.
C24_SanReplaySkipsAndStops ==
  sRet # None =>
    SanReplayAsClaimed(SanCandidatesOf[sArgs.text], Chess(sArgs.fen), sArgs.need,
                       AcceptedUpTo(SanCandidatesOf[sArgs.text], Chess(sArgs.fen),
                                    sArgs.need),
                       SanReplay(SanCandidatesOf[sArgs.text], Chess(sArgs.fen),
                                 <<>>, sArgs.need),
                       sRet[1])

SkippedThenStopped(toks, h0, need, rep) ==
  /\ SanMove(h0, toks[1]) = <<>>
  /\ Len(rep.uci) = need
  /\ rep.left # <<>>

\* a call whose first token is rejected, whose later tokens give need moves,
\* and that leaves a token untried
C24_Witness ==
  /\ sRet # None
  /\ SanCandidatesOf[sArgs.text] # <<>>
  /\ PlyCount(sRet[1]) = sArgs.need
  /\ SkippedThenStopped(SanCandidatesOf[sArgs.text], Chess(sArgs.fen), sArgs.need,
                        SanReplay(SanCandidatesOf[sArgs.text], Chess(sArgs.fen),
                                  <<>>, sArgs.need))

(***************************************************************************)
(* Properties of the result of a retried evaluation (Spec)                  *)
(***************************************************************************)
\* the fields of a result that come from a response rsp and from the parse
\* of its text
BuiltFrom(res, pz, rsp) ==
  /\ res.move = ParseOf(pz, rsp.content).parsed
  /\ res.parseMethod = ParseOf(pz, rsp.content).parseMethod
  /\ res.rawOutput = rsp.content
  /\ res.latencyMs = rsp.latencyMs
  /\ res.promptTokens = rsp.promptTokens
  /\ res.completionTokens = rsp.completionTokens
  /\ res.totalTokens = rsp.totalTokens

\* C25: when evalOne retries, the result it returns is built from the retry's
\* response alone: move and parseMethod are the parse of the retry's text,
\* and rawOutput, latencyMs and the token counts are the retry call's.
C25_ResultFromRetryOnly ==
  [][(pc = "await2" /\ pc' = "done")
       => (result' # None /\ BuiltFrom(result'[1], puzzle, response'))]_vars

\* a result returned after a retry whose response has a move, another
\* latency than the first response and no token counts
C25_Witness ==
  /\ pc = "done"
  /\ invoked = 2
  /\ result # None
  /\ result[1].move # <<>>
  /\ result[1].parseMethod = "san"
  /\ result[1].latencyMs = 2
  /\ result[1].completionTokens = None
  /\ result[1].totalTokens = None
  /\ first # None
  /\ first[1].completionTokens # None

(***************************************************************************)
(* Consistency of a result (Spec)                                           *)
(***************************************************************************)
\* the line each extraction method gives for the text of a result
MethodMatches(res, need, uciToks, sanLine) ==
  /\ res.parseMethod = "uci" =>
       /\ uciToks # <<>>
       /\ res.move = JoinSp(Take(uciToks, need))
  /\ res.parseMethod = "san" =>
       /\ uciToks = <<>>
       /\ sanLine # <<>>
       /\ res.move = sanLine

\* C27: in every result evalOne returns, parseMethod is "none" exactly when
\* move is empty, isLegal is undefined exactly when move is empty, and
\* parseMethod is the method, "uci" or "san", that gives the move for the
\* text of the last response.
C27_ResultConsistent ==
  result # None =>
    /\ result[1].parseMethod \in {"uci", "san", "none"}
    /\ result[1].parseMethod = "none" <=> result[1].move = <<>>
    /\ result[1].isLegal = None <=> result[1].move = <<>>
    /\ result[1].rawOutput = response.content
    /\ MethodMatches(result[1], requiredPlies(puzzle.level),
                     UciTokensOf[result[1].rawOutput],
                     SanToksToUciLine(puzzle.fen, requiredPlies(puzzle.level),
                                      SanCandidatesOf[result[1].rawOutput]))

\* a result with a line of the SAN fallback that is not legal as a whole
C27_Witness ==
  /\ result # None
  /\ result[1].parseMethod = "san"
  /\ result[1].move # <<>>
  /\ result[1].isLegal = Some(FALSE)
  /\ UciTokensOf[result[1].rawOutput] = <<>>

\* C28: a result whose line comes from the SAN fallback and has
\* requiredPlies(level) moves is legal: the validator replays from the same
\* FEN the moves that the SAN tokens gave there one after the other.
C28_FullSanLineIsLegal ==
  (result # None
     /\ result[1].parseMethod = "san"
     /\ PlyCount(result[1].move) = requiredPlies(puzzle.level))
    => /\ result[1].isLegal = Some(TRUE)
       /\ validateUciLineLegal(puzzle.fen, result[1].move,
                               requiredPlies(puzzle.level)).appliedPlies
            = requiredPlies(puzzle.level)

\* a legal line of three moves that the SAN fallback found
C28_Witness ==
  /\ result # None
  /\ result[1].parseMethod = "san"
  /\ puzzle.level = "mate2"
  /\ PlyCount(result[1].move) = 3
  /\ result[1].isLegal = Some(TRUE)

\* C29: when an evaluation of a run fails, the run ends and writes no
\* snapshot: latest.json keeps the results and the model list it had, also
\* when units or a whole model were evaluated before the failure.
C29_FailedRunWritesNothing ==
  rFailed # {} =>
    /\ rPhase = "exited"
    /\ rFile = rExisting
    /\ rFileModels = rOldModels

\* a run that ended on a failure in its second model, after the results of
\* the first were stored in memory
C29_Witness ==
  /\ rPhase = "exited"
  /\ rFailed # {}
  /\ rBatch = 2
  /\ rStored[rToTest[1].id] # rExisting[rToTest[1].id]
  /\ rFile[rToTest[1].id] = rExisting[rToTest[1].id]
  /\ \E i \in 1..NItems : rPool.results[i] # None

(***************************************************************************)
(* Progress of asyncPool (SpecRunLive)                                      *)
(***************************************************************************)
\* asyncPool has resolved for the b-th model with a result of this run for
\* every item
BatchProcessed(b) ==
  /\ rBatch > b
  /\ \A i \in 1..NItems :
       /\ rStored[rToTest[b].id][i] # None
       /\ rStored[rToTest[b].id][i][1] \in ResultsOfItem(i)

\* C26: unless a completion call fails, asyncPool resolves for every model
\* that is tested with a result of this run for every item it handed to fn,
\* and the run goes on to write the snapshot; a worker returns only when
\* every item has been taken.
C26_PoolCompletes ==
  /\ [](\A w \in DOMAIN rWorkers :
          rWorkers[w].st = "returned" => \A i \in 1..NItems : rTaken[i] = 1)
  /\ [](\A b \in DOMAIN rToTest : rBatch > b => BatchProcessed(b))
  /\ <>(rFailed # {}
          \/ (rPhase = "written" /\ \A b \in DOMAIN rToTest : BatchProcessed(b)))

(***************************************************************************)
(* Properties of collectPuzzles (SpecFetchLive)                             *)
(***************************************************************************)
Returned == fPc \in {"returned", "written", "exited"}

\* C30: collectPuzzles returns, whatever the service answers: at the latest
\* once count puzzles are collected or maxRetries fetches have failed, also
\* when the fetches that succeed bring only puzzles that were seen or do not
\* parse; what it returns are at most count puzzles with distinct ids.
C30_CollectTerminates ==
  /\ [](Returned =>
         /\ Len(Take(fCollected, fArgs[1].count)) <= fArgs[1].count
         /\ \A i, j \in DOMAIN fCollected :
              fCollected[i].id = fCollected[j].id => i = j)
  /\ [](fRetries <= maxRetries)
  /\ <>Returned

====
